---- MODULE Spec2Model ----
(***************************************************************************)
(* Authentication security core of the ElysiaJS CMS: account lockout       *)
(* tracking, the refresh-token lifecycle, the auth orchestrator            *)
(* (AuthService) and the rate limiter.                                     *)
(*                                                                         *)
(* Every `await` of the TypeScript code is a point where another request   *)
(* can run, so every function is modelled as one action per awaited store  *)
(* operation.  A process is one request (or one direct caller of an        *)
(* exported function); pc[p] is the await it is suspended at and frame[p]  *)
(* holds its arguments and local variables.                                *)
(*                                                                         *)
(* Time is a logical clock `now` (Date.now()).  One tick stands for half a *)
(* lockout period; the durations of AUTH_CONFIG are expressed in ticks.    *)
(***************************************************************************)
EXTENDS Integers, Sequences, FiniteSets, TLC

\* ---------------------------------------------------------------- bounds
NumProcs == 2          \* concurrent requests
MaxTime == 3           \* the clock stops here
MaxTokens == 2         \* sessions opened (login, createRefreshToken) in one run
MaxAttempts == 6       \* loginAttempts is not driven beyond this
MaxCalls == 2          \* token requests (refresh, validate, revoke) in one run
MaxRecords == 1        \* records handed to one createSecureBackup
MaxChain == 2          \* entries of an X-Forwarded-For header

\* ------------------------------------------------------------- constants
MAX_LOGIN_ATTEMPTS == 5
LOCKOUT_TIME_MINUTES == 2        \* 15 minutes, in ticks
REFRESH_TOKEN_EXPIRE_DAYS == 3   \* 30 days, in ticks

NULL == 0 - 1          \* null / undefined of a nullable column or result
Procs == 1 .. NumProcs
SeqProcs == {1}        \* the one caller of the sequential specifications
\* Requests that record a failure for one user at the same time: one more
\* than a pair, so that more than one update can be lost.
Racers == 1 .. (NumProcs + 1)

\* The two users of the test fixtures (test@example.com, other@example.com).
UserIds == {1, 2}
\* Inputs: the lockout tracker and login are driven for the first user (and
\* for an email nobody registered); the second user owns tokens.
LoginEmails == {"test@example.com", "unknown@example.com"}
LockUsers == {1}
Passwords == {"pw1", "pw2"}
BogusToken == 0        \* a token string no record ever had

\* The rate limiter of the auth endpoints (authRateLimit), window in ticks.
windowMs == 2          \* 15 minutes
max == 5
\* Keys the key generator yields: one per client address.
RateKeys == {"auth:192.0.2.1", "auth:192.0.2.2"}
RaceKeys == {"auth:192.0.2.1"}     \* the key the concurrent requests share
\* References to RateLimitData objects: what the store can hold plus what the
\* calls in progress can still refer to.
ObjIds == 1 .. (Cardinality(RateKeys) + 2 * NumProcs)
ResetTimes == 0 .. (MaxTime + windowMs)
NoData == [count |-> 0, resetTime |-> 0]     \* an unallocated object

VARIABLES
  now,            \* Date.now()
  users,          \* User table: id -> row
  refreshTokens,  \* RefreshToken table: set of rows, token unique
  nextToken,      \* next value generateSecureToken returns
  pc,             \* per process: the await it is suspended at
  frame,          \* per process: arguments and locals of the running call
  ret,            \* per process: outcome of its last completed call
  rotations,      \* history: successful refreshes [old, new, userId]
  streak,         \* history: per user, failures recorded since the last reset
  lastFailure,    \* history: per user, time of the last recorded failure
  lazyReset,      \* history: per user, the last reset lifted an elapsed lock
  calls,          \* token requests started so far
  rlStore,        \* MemoryRateLimitStore.store: key -> the object it holds
  rlObjs,         \* the RateLimitData objects the store and the calls refer to
  rlAllowed,      \* history: checks answered allowed = true, per key and window
  env,            \* process.env and what the deployment offers
  pw,             \* the last call of the password utilities and its outcome
  limiters,       \* per rate limiter: the store createRateLimitStore gave it
  process,        \* the server process: running, shutting down, exited
  files           \* the file system: path -> text of the file, or NoFile

dbVars == <<users, refreshTokens, nextToken, rotations, streak, lastFailure,
           lazyReset>>
rlVars == <<rlStore, rlObjs, rlAllowed>>
auxVars == <<env, pw, limiters, process, files>>
vars == <<now, users, refreshTokens, nextToken, pc, frame, ret, rotations,
          streak, lastFailure, lazyReset, calls, rlStore, rlObjs, rlAllowed,
          env, pw, limiters, process, files>>

NoFrame == [op |-> "none"]
NoRet == [op |-> "none"]

\* ------------------------------------------------------- store primitives
\* prisma.user.findUnique({ where: { email } })
UserIdByEmail(email) ==
  IF \E u \in DOMAIN users : users[u].email = email
  THEN CHOOSE u \in DOMAIN users : users[u].email = email
  ELSE NULL

\* prisma.refreshToken.findUnique({ where: { token } }): the row, or none
HasToken(tbl, token) == \E r \in tbl : r.token = token
FindToken(tbl, token) == CHOOSE r \in tbl : r.token = token

\* (bug variant: the delete has lost its where clause)
DeleteTokenAll(tbl, token) == {}

\* prisma.refreshToken.delete({ where: { token } }) on an existing row
DeleteToken(tbl, token) == {r \in tbl : r.token # token}

\* (bug variant: the delete never reaches the row)
RevokeTokenSkipped(tbl, token) == tbl

\* revokeRefreshToken: delete({ where: { token } }), a missing row is ignored
RevokeToken(tbl, token) == DeleteToken(tbl, token)

\* (bug variant: the owner is not part of the where clause)
RevokeSecureMatchAnyOwner(tbl, token, userId) ==
  {r \in tbl : r.token = token}

\* the rows prisma.refreshToken.deleteMany({ where: { token, userId } }) hits
RevokeSecureMatch(tbl, token, userId) ==
  {r \in tbl : r.token = token /\ r.userId = userId}

\* (bug variant: >= 0, an empty delete counts as a success)
RevokeSecureResultLoose(count) == count >= 0

\* revokeRefreshTokenSecure: deletedCount.count > 0
RevokeSecureResult(count) == count > 0

\* (bug variant: a token expiring exactly now still validates)
TokenExpiredStrict(row, t) == row.expiresAt < t

\* validateRefreshToken: !refreshToken || refreshToken.expiresAt <= new Date()
TokenExpired(row, t) == row.expiresAt <= t

\* createRefreshToken: the row it inserts
NewTokenRow(userId, token, t) ==
  [token |-> token, userId |-> userId,
   expiresAt |-> t + REFRESH_TOKEN_EXPIRE_DAYS]

\* (bug variant: locks one failure late, > instead of >=)
LockedUntilAfterFailureLate(newAttempts, lockoutTime, old) ==
  IF newAttempts > MAX_LOGIN_ATTEMPTS THEN lockoutTime ELSE old

\* incrementLoginAttempts: the lockedUntil it writes (undefined = keep)
LockedUntilAfterFailure(newAttempts, lockoutTime, old) ==
  IF newAttempts >= MAX_LOGIN_ATTEMPTS THEN lockoutTime ELSE old

\* (bug variant: a lock ending exactly now still counts as active)
LockElapsedStrict(lockedUntil, t) == lockedUntil < t

\* (bug variant: comparison reversed, an active lock counts as elapsed)
LockElapsedReversed(lockedUntil, t) == lockedUntil >= t

\* isAccountLocked: user.lockedUntil <= new Date()
LockElapsed(lockedUntil, t) == lockedUntil <= t

\* verifyPassword against the stored digest of the user row
\* ----------------------------------------------------- password utilities
\* A string the code takes apart is a sequence of pieces: the scheme tags
\* "bun:v1:" and "v2:", a colon, an Argon2id encoding "$argon2id$", and "x"
\* for any other run of characters.
StartsWith(text, piece) == Len(text) >= 1 /\ text[1] = piece
Includes(text, piece) ==
  \E i \in 1 .. Len(text) :
    \/ text[i] = piece
    \/ piece = ":" /\ text[i] \in {"bun:v1:", "v2:"}

\* A stored digest: its text, and what the hash inside it was derived from.
Digest(text, password, pepper) ==
  [text |-> text, of |-> password, pepper |-> pepper]
NoDigest == Digest(<<>>, "", "")

\* The test setup's environment (JWT_SECRET set, NODE_ENV = test)
PLACEHOLDER_SECRET == "your-secret-key-for-jwt-tokens"
TestEnv ==
  [NODE_ENV |-> "test", JWT_SECRET |-> "test-secret-key-for-testing-only",
   PEPPER_SECRET |-> "", REDIS_URL |-> "", redis |-> "unreachable"]

\* randomBytes(16): what the fallback pepper can come out as
Draws == {"dev-fallback-pepper-a", "dev-fallback-pepper-b"}
Thrown == "<thrown>"

\* getPepper(): the configured secret, a fresh random pepper outside
\* production, an exception in production
GetPepper(e, draw) ==
  LET pepper == IF e.JWT_SECRET # "" THEN e.JWT_SECRET ELSE e.PEPPER_SECRET
  IN IF pepper = "" \/ pepper = PLACEHOLDER_SECRET
     THEN IF e.NODE_ENV = "production" THEN Thrown ELSE draw
     ELSE pepper

\* The passwords of the model and the character classes the strength rules
\* look at.
PasswordShape ==
  ("pw1" :> [length |-> 12, lower |-> TRUE, upper |-> TRUE, digit |-> TRUE,
             special |-> TRUE, tripled |-> FALSE, repeated |-> FALSE,
             weak |-> FALSE]) @@
  ("pw2" :> [length |-> 9, lower |-> TRUE, upper |-> FALSE, digit |-> TRUE,
             special |-> FALSE, tripled |-> FALSE, repeated |-> FALSE,
             weak |-> FALSE]) @@
  ("admin1" :> [length |-> 6, lower |-> TRUE, upper |-> FALSE, digit |-> TRUE,
                special |-> FALSE, tripled |-> FALSE, repeated |-> FALSE,
                weak |-> TRUE]) @@
  ("aaaaaaaa" :> [length |-> 8, lower |-> TRUE, upper |-> FALSE,
                  digit |-> FALSE, special |-> FALSE, tripled |-> TRUE,
                  repeated |-> TRUE, weak |-> FALSE]) @@
  ("Aa1!x129" :> [length |-> 129, lower |-> TRUE, upper |-> TRUE,
                  digit |-> TRUE, special |-> TRUE, tripled |-> FALSE,
                  repeated |-> FALSE, weak |-> FALSE]) @@
  ("" :> [length |-> 0, lower |-> FALSE, upper |-> FALSE, digit |-> FALSE,
          special |-> FALSE, tripled |-> FALSE, repeated |-> FALSE,
          weak |-> FALSE])
PASSWORD_MIN_LENGTH == 8
PASSWORD_MAX_LENGTH == 128
B(cond) == IF cond THEN 1 ELSE 0

\* validatePasswordStrength(password): errors and score
StrengthErrors(password) ==
  LET c == PasswordShape[password]
  IN B(c.length < PASSWORD_MIN_LENGTH) + B(c.length > PASSWORD_MAX_LENGTH)
       + B(c.weak)
StrengthScore(password) ==
  LET c == PasswordShape[password]
  IN (IF c.length < PASSWORD_MIN_LENGTH THEN 0
      ELSE IF c.length >= 12 THEN 2 ELSE 1)
       + B(c.lower) + B(c.upper) + B(c.digit) + B(c.special)
       + B(~c.tripled) + B(~c.repeated) + B(~c.weak)

\* (bug variant: every password passes)
IsValidPasswordAny(password) == TRUE

\* (bug variant: the score is not looked at)
IsValidPasswordErrorsOnly(password) == StrengthErrors(password) = 0

\* validatePasswordStrength(password): isValid
IsValidPassword(password) ==
  StrengthErrors(password) = 0 /\ StrengthScore(password) >= 4

\* hashPassword(password): bun:v1:<Argon2id of password + pepper>, or throws
HashPassword(password, e, draw) ==
  IF ~IsValidPassword(password) \/ GetPepper(e, draw) = Thrown
  THEN [ok |-> FALSE, hash |-> NoDigest]
  ELSE [ok |-> TRUE,
        hash |-> Digest(<<"bun:v1:", "$argon2id$">>, password,
                        GetPepper(e, draw))]

\* Bun.password.verify(password + pepper, actualHash)
BunVerify(password, pepper, hashedPassword) ==
  IF Tail(hashedPassword.text) # <<"$argon2id$">> THEN "throw"
  ELSE IF hashedPassword.of = password /\ hashedPassword.pepper = pepper
  THEN "true" ELSE "false"

\* verifyLegacyPassword, verifyLegacySimplePassword
VerifyLegacyPassword(password, hashedPassword) == "false"
VerifyLegacySimpleCompares(password, hashedPassword) ==
  IF hashedPassword.of = password THEN "true" ELSE "false"
VerifyLegacySimplePassword(password, hashedPassword) == "false"

\* The body of verifyPassword's try block
VerifyOutcome(password, hashedPassword, e, draw) ==
  IF password = "" \/ hashedPassword.text = <<>> THEN "false"
  ELSE IF StartsWith(hashedPassword.text, "bun:v1:")
  THEN IF GetPepper(e, draw) = Thrown THEN "throw"
       ELSE BunVerify(password, GetPepper(e, draw), hashedPassword)
  ELSE IF StartsWith(hashedPassword.text, "v2:")
  THEN VerifyLegacyPassword(password, hashedPassword)
  ELSE IF Includes(hashedPassword.text, ":")
            /\ ~Includes(hashedPassword.text, "v2:")
  THEN VerifyLegacySimplePassword(password, hashedPassword)
  ELSE "false"

\* verifyPassword(password, hashedPassword): whatever is thrown is caught
VerifyPassword(password, hashedPassword, e, draw) ==
  VerifyOutcome(password, hashedPassword, e, draw) = "true"

\* Inputs of the password utilities: passwords, stored digests that are not
\* well-formed bun:v1 digests, and environments.
PwInputs == DOMAIN PasswordShape
ForeignTexts ==
  {<<>>, <<"x">>, <<"v2:", "x">>, <<"x", ":", "x">>, <<"x", "v2:", "x">>,
   <<"bun:v1:", "x">>, <<"bun:v1:">>}
ForeignDigests == {Digest(t, "pw1", "") : t \in ForeignTexts}
PwEnvs ==
  {[NODE_ENV |-> n, JWT_SECRET |-> j, PEPPER_SECRET |-> q, REDIS_URL |-> "",
    redis |-> "unreachable"] :
     n \in {"production", "development"},
     j \in {"", PLACEHOLDER_SECRET, "a-long-random-secret"},
     q \in {"", "a-pepper-secret"}}
NoCall == [fn |-> "none"]

\* ------------------------------------------------- rate limiter backends
Limiters == {"authRateLimit", "generalRateLimit", "registerRateLimit"}

\* createRateLimitStore(): the Redis store in production with REDIS_URL set
\* (its constructor connects to nothing and never throws), else a memory
\* store, whose constructor starts the cleanup interval
CreateRateLimitStore(e) ==
  IF e.NODE_ENV = "production" /\ e.REDIS_URL # ""
  THEN [backend |-> "redis", cleanupInterval |-> FALSE, connected |-> FALSE]
  ELSE [backend |-> "memory", cleanupInterval |-> TRUE, connected |-> FALSE]

\* ------------------------------------------------------ network utilities
\* Header values and addresses are sequences of pieces, " " a run of white
\* space; <<>> is the empty string or an absent header (both falsy).
RECURSIVE TrimStart(_)
TrimStart(text) ==
  IF text # <<>> /\ Head(text) = " " THEN TrimStart(Tail(text)) ELSE text
RECURSIVE TrimEnd(_)
TrimEnd(text) ==
  IF text # <<>> /\ text[Len(text)] = " "
  THEN TrimEnd(SubSeq(text, 1, Len(text) - 1)) ELSE text
\* String.prototype.trim
Trim(text) == TrimEnd(TrimStart(text))

\* A left-most entry that is 'unknown' gives way to the next entry of the
\* chain.
ExtractClientIPNextEntry(request) ==
  LET known == {i \in 1 .. Len(request.forwarded) :
                  Trim(request.forwarded[i]) \notin {<<>>, <<"unknown">>}}
  IN IF known # {}
     THEN Trim(request.forwarded[CHOOSE i \in known : \A j \in known : i <= j])
     ELSE IF request.realIP \notin {<<>>, <<"unknown">>} THEN request.realIP
     ELSE IF request.ip \notin {<<>>, <<"unknown">>} THEN request.ip
     ELSE <<"unknown">>

\* extractClientIP(request); `forwarded` is the x-forwarded-for header split
\* at its commas (one empty entry when the header is empty or absent)
ExtractClientIP(request) ==
  LET firstIP == Trim(request.forwarded[1])
  IN IF request.forwarded # << <<>> >>
        /\ firstIP # <<>> /\ firstIP # <<"unknown">>
     THEN firstIP
     ELSE IF request.realIP # <<>> /\ request.realIP # <<"unknown">>
     THEN request.realIP
     ELSE IF request.ip # <<>> /\ request.ip # <<"unknown">>
     THEN request.ip
     ELSE <<"unknown">>

\* generateRateLimitKey(prefix, request): `${prefix}:${ip}`
GenerateRateLimitKey(prefix, request) ==
  <<prefix, ":">> \o ExtractClientIP(request)

\* Requests: the entries of the forwarded chain, the x-real-ip header and
\* the address of the connection.
ChainEntries ==
  {<<>>, <<"unknown">>, <<" ", "unknown", " ">>, <<" ", "192.0.2.1">>}
NetRequests ==
  [forwarded : UNION {[1 .. n -> ChainEntries] : n \in 1 .. MaxChain},
   realIP : {<<>>, <<"unknown">>, <<"198.51.100.7">>},
   ip : {<<>>, <<"unknown">>, <<"203.0.113.9">>}]
KeyPrefixes == {"auth", "register"}

\* ------------------------------------------------- secure backup: data
\* A JavaScript value is [kind, v]; an object is a function of its fields.
\* The rows createBackup selects from the user table (the password digest
\* and the Date of creation among them), and a record without a password.
UserRow ==
  [id |-> [kind |-> "number", v |-> 1],
   password |-> [kind |-> "string", v |-> "digest"],
   createdAt |-> [kind |-> "date", v |-> 0]]
BareRow == [id |-> [kind |-> "number", v |-> 2]]
BackupRecords == {UserRow, BareRow}
BackupInputs == UNION {[1 .. n -> BackupRecords] : n \in 0 .. MaxRecords}

\* A text is [kind |-> "json", ...] or [kind |-> "hex", ...]; a path is the
\* sequence of its pieces, the extension last.
NoFile == [kind |-> "none"]
DefaultPath(encrypt) ==
  <<"backup-users-", "Date.now()", IF encrypt THEN ".enc" ELSE ".json">>
CustomPaths == {<<"users", ".enc">>, <<"users", ".json">>}
BackupPaths == CustomPaths \cup {DefaultPath(TRUE), DefaultPath(FALSE)}

\* Keys are sequences of 16-byte blocks; <<>> is no key (undefined or '').
UserKey == <<"k1", "k2">>
GeneratedKey == <<"g1", "g2">>     \* generateBackupKey(): randomBytes(32)
RestoreKeys == {<<>>, UserKey, GeneratedKey, <<"k1">>}
Ivs == {1, 2}                      \* randomBytes(16)

\* BackupOptions: every field is optional
Tri == {"undefined", "true", "false"}
BackupOptions ==
  [encrypt : Tri, includePasswords : Tri, encryptionKey : {<<>>, UserKey},
   backupPath : {<<>>} \cup CustomPaths]
\* `name = fallback` in the destructuring of the options
Default(v, fallback) == IF v = "undefined" THEN fallback ELSE v = "true"

\* A record whose password field is kept whatever the options say.
SanitizeKeepsPassword(record, includePasswords) ==
  [sanitized |-> record, record |-> record]

\* The callback of data.map in createSecureBackup: `sanitized` is what it
\* returns, a shallow copy of the record with the password field deleted
\* unless passwords are included; `record` is the caller's object afterwards.
Sanitize(record, includePasswords) ==
  [sanitized |-> IF ~includePasswords /\ "password" \in DOMAIN record
                 THEN [f \in DOMAIN record \ {"password"} |-> record[f]]
                 ELSE record,
   record |-> record]

\* JSON.stringify of an object: a field that is undefined is left out, a
\* Date becomes its ISO string.
ToJson(record) ==
  [f \in {g \in DOMAIN record : record[g].kind # "undefined"} |->
     IF record[f].kind = "date"
     THEN [kind |-> "string", v |-> [iso |-> record[f].v]]
     ELSE record[f]]

\* JSON.stringify(backupData, null, 2)
Stringify(backupData) ==
  [kind |-> "json", metadata |-> backupData.metadata,
   data |-> [i \in 1 .. Len(backupData.data) |-> ToJson(backupData.data[i])]]

\* keyBuffer of encryptBackup and decryptBackup: the first 32 bytes of the
\* key, a shorter key padded with zeros.
KeyBuffer(key) == SubSeq(key \o <<"00", "00">>, 1, 2)

\* encryptBackup: `${iv.toString('hex')}:${encrypted}`
EncryptBackup(data, key, iv) ==
  [kind |-> "hex", iv |-> iv, key |-> KeyBuffer(key), plain |-> data]

\* decryptBackup: a text that is not two hex parts around one colon is
\* refused (the JSON text of a backup holds many colons); deciphering under
\* another key fails at the padding or gives bytes that are not the text.
DecryptBackup(encryptedData, key) ==
  IF encryptedData.kind # "hex"
  THEN [ok |-> FALSE, error |-> "Invalid encrypted backup format"]
  ELSE IF encryptedData.key # KeyBuffer(key)
  THEN [ok |-> FALSE, error |-> "bad decrypt"]
  ELSE [ok |-> TRUE, text |-> encryptedData.plain]

\* restoreSecureBackup once the file is read: deciphered if the path ends
\* in .enc, then JSON.parse.
RestoreSecureBackup(backupPath, fileContent, encryptionKey) ==
  LET jsonData ==
        IF backupPath[Len(backupPath)] = ".enc"
        THEN IF encryptionKey = <<>>
             THEN [ok |-> FALSE,
                   error |-> "Encryption key required for encrypted backup restoration"]
             ELSE DecryptBackup(fileContent, encryptionKey)
        ELSE [ok |-> TRUE, text |-> fileContent]
  IN IF ~jsonData.ok THEN jsonData
     ELSE IF jsonData.text.kind # "json"
     THEN [ok |-> FALSE, error |-> "SyntaxError"]
     ELSE [ok |-> TRUE,
           backupData |-> [metadata |-> jsonData.text.metadata,
                           data |-> jsonData.text.data]]

\* A validation that does not compare the number of records.
ValidateBackupNoCount(restored) ==
  IF ~restored.ok THEN [valid |-> FALSE, error |-> restored.error]
  ELSE [valid |-> TRUE, metadata |-> restored.backupData.metadata]

\* validateBackup once restoreSecureBackup has returned or thrown (every
\* text that parses here has its metadata and its data array)
ValidateBackup(restored) ==
  IF ~restored.ok THEN [valid |-> FALSE, error |-> restored.error]
  ELSE IF Len(restored.backupData.data)
            # restored.backupData.metadata.recordCount
  THEN [valid |-> FALSE, error |-> "Record count mismatch"]
  ELSE [valid |-> TRUE, metadata |-> restored.backupData.metadata]

\* ------------------------------------------------------------------ Init
InitUsers ==
  (1 :> [email |-> "test@example.com",
         password |-> Digest(<<"bun:v1:", "$argon2id$">>, "pw1",
                             TestEnv.JWT_SECRET),
         loginAttempts |-> 0, lockedUntil |-> NULL]) @@
  (2 :> [email |-> "other@example.com",
         password |-> Digest(<<"bun:v1:", "$argon2id$">>, "pw2",
                             TestEnv.JWT_SECRET),
         loginAttempts |-> 0, lockedUntil |-> NULL])

\* The state after start-up in environment e with user table us, the first
\* user having failed to log in a times in a row since.
InitBoot(e, us, a) ==
  /\ now = 0
  /\ users = [us EXCEPT ![1].loginAttempts = a]
  /\ refreshTokens = {}
  /\ nextToken = 1
  /\ pc = [p \in Racers |-> "idle"]
  /\ frame = [p \in Racers |-> NoFrame]
  /\ ret = [p \in Racers |-> NoRet]
  /\ rotations = {}
  /\ streak = [u \in UserIds |-> IF u = 1 THEN a ELSE 0]
  /\ lastFailure = [u \in UserIds |-> IF u = 1 /\ a > 0 THEN 0 ELSE NULL]
  /\ lazyReset = [u \in UserIds |-> FALSE]
  /\ calls = 0
  /\ rlStore = [k \in RateKeys |-> NULL]
  /\ rlObjs = [i \in ObjIds |-> NoData]
  /\ rlAllowed = [w \in RateKeys \X ResetTimes |-> 0]
  /\ env = e
  /\ pw = NoCall
  /\ limiters = [l \in Limiters |-> CreateRateLimitStore(e)]
  /\ process = "running"
  /\ files = [path \in BackupPaths |-> NoFile]

InitAt(e, a) == InitBoot(e, InitUsers, a)

InitIn(e) == InitAt(e, 0)

Init == InitIn(TestEnv)

\* ------------------------------------------------------- control helpers
Goto(p, label, f) ==
  /\ pc' = [pc EXCEPT ![p] = label]
  /\ frame' = [frame EXCEPT ![p] = f]
  /\ ret' = ret

Call(p, label, f) ==
  /\ pc[p] = "idle"
  /\ \A q \in Racers : q < p => pc[q] # "idle"
  /\ pc' = [pc EXCEPT ![p] = label]
  /\ frame' = [frame EXCEPT ![p] = f]
  /\ ret' = [ret EXCEPT ![p] = NoRet]

Finish(p, r) ==
  /\ pc' = [pc EXCEPT ![p] = "idle"]
  /\ frame' = [frame EXCEPT ![p] = NoFrame]
  /\ ret' = [ret EXCEPT ![p] = r]

With(f, g) == g @@ f

\* Date.now() advances
Tick ==
  /\ now < MaxTime
  /\ now' = now + 1
  /\ UNCHANGED <<dbVars, calls, rlVars, auxVars, pc, frame, ret>>

\* ------------------------------------------------ account lockout tracker
\* incrementLoginAttempts: lockoutTime, computed before the first await
LockoutTime(t) == t + LOCKOUT_TIME_MINUTES

\* BaseService.handleError(error, context): the message of the Error it
\* rethrows, prefixed with the context unless it already names it
HandleError(message, context) ==
  IF message # <<>> /\ ~Includes(message, context)
  THEN <<"[", context, "] ">> \o message
  ELSE message

\* an error of its own for an email nobody registered
UnknownEmailNamed == "USER_NOT_FOUND"

\* login: if (!user) throw new Error('INVALID_CREDENTIALS')
UnknownEmailError == "INVALID_CREDENTIALS"

\* login: if (!passwordValid) { ...; throw new Error('INVALID_CREDENTIALS') }
WrongPasswordError == "INVALID_CREDENTIALS"

\* login throws: the error handleError rethrows to the route
LoginFailed(f, code) ==
  [op |-> "login", email |-> f.email, password |-> f.password, outcome |-> code,
   message |-> HandleError(<<code>>, "AuthService.login")]

\* login: if (isLocked && lockedUntil) throw ACCOUNT_LOCKED
LoginRejectsLocked(isLocked, lockedUntil) == isLocked /\ lockedUntil # NULL

\* incrementLoginAttempts returns: to login (which throws) or to the caller
IncReturn(p, f) ==
  IF f.op = "login"
  THEN Finish(p, LoginFailed(f, WrongPasswordError))
  ELSE Finish(p, [op |-> f.op, userId |-> f.userId, outcome |-> "ok"])

\* incrementLoginAttempts(userId), called directly
BeginIncrement(p, u) ==
  /\ u \in DOMAIN users => users[u].loginAttempts < MaxAttempts
  /\ Call(p, "inc_find",
          [op |-> "incrementLoginAttempts", userId |-> u, calledAt |-> now,
           lockoutTime |-> LockoutTime(now)])
  /\ UNCHANGED <<now, dbVars, calls, rlVars, auxVars>>

\* incrementLoginAttempts: findUnique({ id }, select loginAttempts)
IncFind(p) ==
  /\ pc[p] = "inc_find"
  /\ LET f == frame[p] IN
       IF f.userId \notin DOMAIN users
       THEN IncReturn(p, f)
       ELSE Goto(p, "inc_update",
                 With(f, [loginAttempts |-> users[f.userId].loginAttempts]))
  /\ UNCHANGED <<now, dbVars, calls, rlVars, auxVars>>

\* incrementLoginAttempts: update({ id }, loginAttempts, lockedUntil)
IncUpdate(p) ==
  /\ pc[p] = "inc_update"
  /\ LET f == frame[p]
         u == f.userId
         newAttempts == f.loginAttempts + 1
     IN
       IF u \notin DOMAIN users
       THEN /\ Finish(p, [op |-> f.op, outcome |-> "STORE_FAULT"])
            /\ UNCHANGED <<users, streak, lastFailure>>
       ELSE /\ users' = [users EXCEPT
                  ![u].loginAttempts = newAttempts,
                  ![u].lockedUntil =
                     LockedUntilAfterFailure(newAttempts, f.lockoutTime, @)]
            /\ streak' = [streak EXCEPT ![u] = @ + 1]
            /\ lastFailure' = [lastFailure EXCEPT ![u] = f.calledAt]
            /\ IncReturn(p, f)
  /\ UNCHANGED <<now, refreshTokens, nextToken, rotations, lazyReset, calls, rlVars, auxVars>>

\* checkAccountLockByEmail returns: to login or to the caller
CheckReturn(p, f, isLocked, lockedUntil) ==
  IF f.op = "checkAccountLockByEmail"
  THEN Finish(p, [op |-> f.op, email |-> f.email, isLocked |-> isLocked,
                  lockedUntil |-> lockedUntil, at |-> now])
  ELSE IF LoginRejectsLocked(isLocked, lockedUntil)
       THEN Finish(p, LoginFailed(f, "ACCOUNT_LOCKED"))
       ELSE Goto(p, "login_verify", f)

\* isAccountLocked returns: to checkAccountLockByEmail or to the caller
IsLockedReturn(p, f, isLocked) ==
  IF f.op = "isAccountLocked"
  THEN Finish(p, [op |-> f.op, userId |-> f.userId, isLocked |-> isLocked,
                  at |-> now])
  ELSE CheckReturn(p, f, isLocked,
                   IF isLocked THEN f.checkLockedUntil ELSE NULL)

\* checkAccountLockByEmail(email), called directly
BeginCheckLock(p, email) ==
  /\ Call(p, "check_find", [op |-> "checkAccountLockByEmail", email |-> email])
  /\ UNCHANGED <<now, dbVars, calls, rlVars, auxVars>>

\* checkAccountLockByEmail: findUnique({ email }, select id, lockedUntil)
CheckFind(p) ==
  /\ pc[p] = "check_find"
  /\ LET f == frame[p]
         u == UserIdByEmail(f.email)
     IN
       IF u = NULL
       THEN CheckReturn(p, f, FALSE, NULL)
       ELSE Goto(p, "locked_find",
                 With(f, [userId |-> u,
                          checkLockedUntil |-> users[u].lockedUntil]))
  /\ UNCHANGED <<now, dbVars, calls, rlVars, auxVars>>

\* isAccountLocked(userId), called directly
BeginIsLocked(p, u) ==
  /\ Call(p, "locked_find", [op |-> "isAccountLocked", userId |-> u])
  /\ UNCHANGED <<now, dbVars, calls, rlVars, auxVars>>

\* isAccountLocked: findUnique({ id }, select lockedUntil) and the date test
IsLockedFind(p) ==
  /\ pc[p] = "locked_find"
  /\ LET f == frame[p]
         u == f.userId
     IN
       IF u \notin DOMAIN users \/ users[u].lockedUntil = NULL
       THEN IsLockedReturn(p, f, FALSE)
       ELSE IF LockElapsed(users[u].lockedUntil, now)
            THEN Goto(p, "reset_update", With(f, [resetFor |-> "isAccountLocked"]))
            ELSE IsLockedReturn(p, f, TRUE)
  /\ UNCHANGED <<now, dbVars, calls, rlVars, auxVars>>

\* a reset that clears the lock and leaves the counter
ResetRowKeepsCount(row) == [row EXCEPT !.lockedUntil = NULL]

\* resetLoginAttempts: the row it writes
ResetRow(row) == [row EXCEPT !.loginAttempts = 0, !.lockedUntil = NULL]

\* resetLoginAttempts(userId), called directly
BeginReset(p, u) ==
  /\ Call(p, "reset_update",
          [op |-> "resetLoginAttempts", userId |-> u, resetFor |-> "caller"])
  /\ UNCHANGED <<now, dbVars, calls, rlVars, auxVars>>

\* resetLoginAttempts returns: to isAccountLocked, to login or to the caller
ResetReturn(p, f) ==
  IF f.resetFor = "isAccountLocked"
  THEN IsLockedReturn(p, f, FALSE)
  ELSE IF f.resetFor = "login"
       THEN Goto(p, "login_issue", f)
       ELSE Finish(p, [op |-> f.op, userId |-> f.userId, outcome |-> "ok"])

\* resetLoginAttempts: update({ id }, loginAttempts: 0, lockedUntil: null);
\* update rejects when no row has the id
ResetUpdate(p) ==
  /\ pc[p] = "reset_update"
  /\ LET f == frame[p]
         u == f.userId
     IN
       IF u \notin DOMAIN users
       THEN /\ Finish(p, [op |-> f.op, outcome |-> "STORE_FAULT"])
            /\ UNCHANGED <<users, streak, lazyReset>>
       ELSE /\ users' = [users EXCEPT ![u] = ResetRow(@)]
            /\ streak' = [streak EXCEPT ![u] = 0]
            /\ lazyReset' = [lazyReset EXCEPT ![u] = (f.resetFor = "isAccountLocked")]
            /\ ResetReturn(p, f)
  /\ UNCHANGED <<now, refreshTokens, nextToken, rotations, lastFailure, calls, rlVars, auxVars>>

\* prisma.user.delete({ where: { id } }): the row goes, and with it the
\* refresh tokens of the user (ON DELETE CASCADE)
DeleteUser(u) ==
  /\ u \in DOMAIN users
  /\ users' = [v \in DOMAIN users \ {u} |-> users[v]]
  /\ refreshTokens' = {r \in refreshTokens : r.userId # u}
  /\ UNCHANGED <<now, nextToken, pc, frame, ret, rotations, streak, lastFailure,
                 lazyReset, calls, rlVars, auxVars>>

\* ------------------------------------------------------ AuthService.login
\* login(credentials, jwtSign) is called
BeginLogin(p, email, password) ==
  /\ nextToken <= MaxTokens
  /\ LET u == UserIdByEmail(email) IN
       u # NULL => users[u].loginAttempts < MaxAttempts
  /\ Call(p, "login_find", [op |-> "login", email |-> email, password |-> password])
  /\ UNCHANGED <<now, dbVars, calls, rlVars, auxVars>>

\* login: prisma.user.findUnique({ email }); unknown email throws
LoginFind(p) ==
  /\ pc[p] = "login_find"
  /\ LET f == frame[p]
         u == UserIdByEmail(f.email)
     IN
       IF u = NULL
       THEN Finish(p, LoginFailed(f, UnknownEmailError))
       ELSE Goto(p, "check_find",
                 With(f, [user |-> [id |-> u, password |-> users[u].password]]))
  /\ UNCHANGED <<now, dbVars, calls, rlVars, auxVars>>

\* login: await verifyPassword(password, user.password), then either
\* incrementLoginAttempts(user.id) or resetLoginAttempts(user.id) is entered
LoginVerify(p) ==
  /\ pc[p] = "login_verify"
  /\ \E draw \in Draws :
     LET f == frame[p] IN
       IF VerifyPassword(f.password, f.user.password, env, draw)
       THEN Goto(p, "reset_update",
                 With(f, [userId |-> f.user.id, resetFor |-> "login"]))
       ELSE Goto(p, "inc_find",
                 With(f, [userId |-> f.user.id, calledAt |-> now,
                          lockoutTime |-> LockoutTime(now)]))
  /\ UNCHANGED <<now, dbVars, calls, rlVars, auxVars>>

\* login: jwtSign, generateSecureToken(64), createRefreshToken(user.id, token);
\* the foreign key rejects the insert when the user is gone by now
LoginIssue(p) ==
  /\ pc[p] = "login_issue"
  /\ LET f == frame[p] IN
       IF f.user.id \notin DOMAIN users
       THEN /\ UNCHANGED <<refreshTokens, nextToken>>
            /\ Finish(p, [op |-> "login", email |-> f.email,
                          password |-> f.password, outcome |-> "STORE_FAULT"])
       ELSE
       /\ refreshTokens' = refreshTokens \cup {NewTokenRow(f.user.id, nextToken, now)}
       /\ nextToken' = nextToken + 1
       /\ Finish(p, [op |-> "login", email |-> f.email, password |-> f.password,
                     outcome |-> "ok", userId |-> f.user.id,
                     refreshToken |-> nextToken])
  /\ UNCHANGED <<now, users, rotations, streak, lastFailure, lazyReset, calls, rlVars, auxVars>>

\* --------------------------------------------------- AuthService.register
\* register throws: the error handleError rethrows to the route
RegisterFailed(f, code) ==
  [op |-> "register", email |-> f.email, password |-> f.password,
   outcome |-> code, message |-> HandleError(<<code>>, "AuthService.register")]

\* register(userData) is called
BeginRegister(p, email, password) ==
  /\ Call(p, "reg_find", [op |-> "register", email |-> email, password |-> password])
  /\ UNCHANGED <<now, dbVars, calls, rlVars, auxVars>>

\* register: findUnique({ email }), then validatePasswordStrength(password)
RegFind(p) ==
  /\ pc[p] = "reg_find"
  /\ LET f == frame[p] IN
       IF UserIdByEmail(f.email) # NULL
       THEN Finish(p, RegisterFailed(f, "EMAIL_ALREADY_EXISTS"))
       ELSE IF ~IsValidPassword(f.password)
       THEN Finish(p, RegisterFailed(f, "VALIDATION_ERROR"))
       ELSE Goto(p, "reg_hash", f)
  /\ UNCHANGED <<now, dbVars, calls, rlVars, auxVars>>

\* register: await hashPassword(password)
RegHash(p) ==
  /\ pc[p] = "reg_hash"
  /\ \E draw \in Draws :
       LET f == frame[p]
           h == HashPassword(f.password, env, draw)
       IN IF h.ok
          THEN Goto(p, "reg_create", With(f, [hash |-> h.hash]))
          ELSE Finish(p, RegisterFailed(f, "HASH_FAILED"))
  /\ UNCHANGED <<now, dbVars, calls, rlVars, auxVars>>

\* register: prisma.user.create; the unique index on email rejects a second
\* row for the email
RegCreate(p) ==
  /\ pc[p] = "reg_create"
  /\ LET f == frame[p]
         id == CHOOSE i \in 1 .. (Cardinality(DOMAIN users \cup UserIds) + 1) :
                 i \notin DOMAIN users \cup UserIds
     IN IF UserIdByEmail(f.email) # NULL
        THEN /\ Finish(p, RegisterFailed(f, "STORE_FAULT"))
             /\ users' = users
        ELSE /\ users' = users @@
                   (id :> [email |-> f.email, password |-> f.hash,
                           loginAttempts |-> 0, lockedUntil |-> NULL])
             /\ Finish(p, [op |-> "register", email |-> f.email,
                           password |-> f.password, outcome |-> "ok",
                           userId |-> id])
  /\ UNCHANGED <<now, refreshTokens, nextToken, rotations, streak, lastFailure,
                 lazyReset, calls, rlVars, auxVars>>

\* -------------------------------------------------- refresh-token lifecycle
\* Token values a caller can present: any issued one, or one never issued.
Presentable == {BogusToken} \cup (1 .. (nextToken - 1))

\* createRefreshToken(userId, generateSecureToken(64)): one insert, no other
\* await, so the call is a single step of whoever makes it
CreateRefreshToken(u) ==
  /\ nextToken <= MaxTokens
  /\ refreshTokens' = refreshTokens \cup {NewTokenRow(u, nextToken, now)}
  /\ nextToken' = nextToken + 1
  /\ UNCHANGED <<now, users, pc, frame, ret, rotations, streak, lastFailure,
                 lazyReset, calls, rlVars, auxVars>>

\* refreshToken throws: the error handleError rethrows to the route
RefreshFailed(f, code) == [op |-> "refresh", outcome |-> code]

\* validateRefreshToken returns: to refreshToken or to the caller
ValReturn(p, f, userId, deleted) ==
  IF f.op = "validateRefreshToken"
  THEN Finish(p, [op |-> f.op, value |-> userId, deleted |-> deleted])
  ELSE IF userId = NULL
       THEN Finish(p, RefreshFailed(f, "TOKEN_INVALID"))
       ELSE Goto(p, "refresh_user", With(f, [tokenUserId |-> userId]))

\* validateRefreshToken(token), called directly
BeginValidate(p, t) ==
  /\ calls < MaxCalls
  /\ calls' = calls + 1
  /\ Call(p, "val_find", [op |-> "validateRefreshToken", token |-> t])
  /\ UNCHANGED <<now, dbVars, rlVars, auxVars>>

\* validateRefreshToken: findUnique({ token }) and the expiry test
ValFind(p) ==
  /\ pc[p] = "val_find"
  /\ LET f == frame[p] IN
       IF ~HasToken(refreshTokens, f.token)
       THEN ValReturn(p, f, NULL, FALSE)
       ELSE IF TokenExpired(FindToken(refreshTokens, f.token), now)
            THEN Goto(p, "val_delete", f)
            ELSE ValReturn(p, f, FindToken(refreshTokens, f.token).userId, FALSE)
  /\ UNCHANGED <<now, dbVars, calls, rlVars, auxVars>>

\* validateRefreshToken: delete({ token }) of the expired row; prisma rejects
\* when the row is gone, and nothing on the way up catches that
ValDelete(p) ==
  /\ pc[p] = "val_delete"
  /\ LET f == frame[p] IN
       IF HasToken(refreshTokens, f.token)
       THEN /\ refreshTokens' = DeleteToken(refreshTokens, f.token)
            /\ ValReturn(p, f, NULL, TRUE)
       ELSE /\ refreshTokens' = refreshTokens
            /\ Finish(p, [op |-> f.op, outcome |-> "STORE_FAULT"])
  /\ UNCHANGED <<now, users, nextToken, rotations, streak, lastFailure,
                 lazyReset, calls, rlVars, auxVars>>

\* refreshToken(refreshTokenData, jwtSign) is called
BeginRefresh(p, t) ==
  /\ calls < MaxCalls
  /\ calls' = calls + 1
  /\ nextToken <= MaxTokens
  /\ Call(p, "val_find", [op |-> "refresh", token |-> t])
  /\ UNCHANGED <<now, dbVars, rlVars, auxVars>>

\* refreshToken: prisma.user.findUnique({ id: tokenData.userId })
RefreshUser(p) ==
  /\ pc[p] = "refresh_user"
  /\ LET f == frame[p] IN
       IF f.tokenUserId \notin DOMAIN users
       THEN Finish(p, RefreshFailed(f, "USER_NOT_FOUND"))
       ELSE Goto(p, "refresh_revoke", With(f, [user |-> [id |-> f.tokenUserId]]))
  /\ UNCHANGED <<now, dbVars, calls, rlVars, auxVars>>

\* refreshToken: jwtSign, then revokeRefreshToken(refreshToken)
RefreshRevoke(p) ==
  /\ pc[p] = "refresh_revoke"
  /\ refreshTokens' = RevokeToken(refreshTokens, frame[p].token)
  /\ Goto(p, "refresh_issue", frame[p])
  /\ UNCHANGED <<now, users, nextToken, rotations, streak, lastFailure,
                 lazyReset, calls, rlVars, auxVars>>

\* refreshToken: generateSecureToken(64), createRefreshToken(user.id, new);
\* the foreign key rejects the insert when the user is gone by now
RefreshIssue(p) ==
  /\ pc[p] = "refresh_issue"
  /\ LET f == frame[p] IN
       IF f.user.id \notin DOMAIN users
       THEN /\ UNCHANGED <<refreshTokens, nextToken, rotations>>
            /\ Finish(p, [op |-> "refresh", outcome |-> "STORE_FAULT"])
       ELSE
       /\ refreshTokens' = refreshTokens \cup {NewTokenRow(f.user.id, nextToken, now)}
       /\ nextToken' = nextToken + 1
       /\ rotations' = rotations \cup
            {[old |-> f.token, new |-> nextToken, userId |-> f.tokenUserId]}
       /\ Finish(p, [op |-> "refresh", outcome |-> "ok"])
  /\ UNCHANGED <<now, users, streak, lastFailure, lazyReset, calls, rlVars, auxVars>>

\* logout throws: the error handleError rethrows to the route
LogoutFailed(f, code) ==
  [op |-> "logout", userId |-> f.userId, token |-> f.token,
   logoutAll |-> f.logoutAll, outcome |-> code,
   message |-> HandleError(<<code>>, "AuthService.logout")]

\* logout returns { message }; `revoked` notes the token values it deleted
LogoutDone(f, revoked) ==
  [op |-> "logout", userId |-> f.userId, token |-> f.token,
   logoutAll |-> f.logoutAll, outcome |-> "ok", revoked |-> revoked]

\* (bug variant: the where clause is lost, every record goes)
RevokeAllMatchEveryone(tbl, userId) == tbl

\* revokeAllRefreshTokens: the rows deleteMany({ where: { userId } }) hits
RevokeAllMatch(tbl, userId) == {r \in tbl : r.userId = userId}

\* logout(logoutData, userId) with logoutAll, or else with a refreshToken:
\* up to the deleteMany of revokeAllRefreshTokens / revokeRefreshTokenSecure
BeginLogout(p, u, t, all) ==
  /\ all \/ t # NULL
  /\ calls < MaxCalls
  /\ calls' = calls + 1
  /\ Call(p, IF all THEN "logout_all" ELSE "revsec_delete",
          [op |-> "logout", token |-> t, userId |-> u, logoutAll |-> all,
           ownedAtCall |-> (RevokeSecureMatch(refreshTokens, t, u) # {})])
  /\ UNCHANGED <<now, dbVars, rlVars, auxVars>>

\* logout with neither logoutAll nor a refreshToken throws before any await
LogoutMissing(p, u) ==
  /\ calls < MaxCalls
  /\ calls' = calls + 1
  /\ pc[p] = "idle"
  /\ \A q \in Racers : q < p => pc[q] # "idle"
  /\ ret' = [ret EXCEPT ![p] =
               LogoutFailed([userId |-> u, token |-> NULL, logoutAll |-> FALSE],
                            "REQUIRED_FIELD_MISSING")]
  /\ UNCHANGED <<now, dbVars, rlVars, auxVars, pc, frame>>

\* logout resumes after revokeAllRefreshTokens(userId)
LogoutAll(p) ==
  /\ pc[p] = "logout_all"
  /\ LET f == frame[p]
         hit == RevokeAllMatch(refreshTokens, f.userId)
     IN
       /\ refreshTokens' = refreshTokens \ hit
       /\ Finish(p, LogoutDone(f, {r.token : r \in hit}))
  /\ UNCHANGED <<now, users, nextToken, rotations, streak, lastFailure,
                 lazyReset, calls, rlVars, auxVars>>

\* revokeRefreshTokenSecure returns: to logout (which throws TOKEN_INVALID
\* when nothing was revoked) or to the caller
RevSecReturn(f, hit) ==
  IF f.op = "logout"
  THEN IF RevokeSecureResult(Cardinality(hit))
       THEN LogoutDone(f, {r.token : r \in hit})
       ELSE LogoutFailed(f, "TOKEN_INVALID")
  ELSE [op |-> f.op, token |-> f.token, userId |-> f.userId,
        ownedAtCall |-> f.ownedAtCall,
        value |-> RevokeSecureResult(Cardinality(hit))]

\* revokeRefreshTokenSecure(token, userId) is called
BeginRevokeSecure(p, t, u) ==
  /\ calls < MaxCalls
  /\ calls' = calls + 1
  /\ Call(p, "revsec_delete",
          [op |-> "revokeRefreshTokenSecure", token |-> t, userId |-> u,
           ownedAtCall |-> (RevokeSecureMatch(refreshTokens, t, u) # {})])
  /\ UNCHANGED <<now, dbVars, rlVars, auxVars>>

\* revokeRefreshTokenSecure: deleteMany({ token, userId }), count > 0
RevSecDelete(p) ==
  /\ pc[p] = "revsec_delete"
  /\ LET f == frame[p]
         hit == RevokeSecureMatch(refreshTokens, f.token, f.userId)
     IN
       /\ refreshTokens' = refreshTokens \ hit
       /\ Finish(p, RevSecReturn(f, hit))
  /\ UNCHANGED <<now, users, nextToken, rotations, streak, lastFailure,
                 lazyReset, calls, rlVars, auxVars>>

\* ----------------------------------------------------------- rate limiter
\* an entry kept for the instant at which its window ends
EntryExpiredStrict(data, t) == data.resetTime < t

\* MemoryRateLimitStore.get compares the entry's resetTime with Date.now()
EntryExpired(data, t) == data.resetTime <= t

\* RateLimiter.check compares it with the `now` it read on entry
WindowElapsed(data, t) == data.resetTime <= t

\* RateLimiter.check: the limit is reached
LimitReachedLate(count) == count > max
LimitReached(count) == count >= max

\* MemoryRateLimitStore.get up to its return: the object handed back ...
StoreGet(store, objs, k, t) ==
  IF store[k] = NULL \/ EntryExpired(objs[store[k]], t) THEN NULL ELSE store[k]

\* ... and the map it leaves behind (an expired entry is deleted)
StoreAfterGet(store, objs, k, t) ==
  IF store[k] # NULL /\ EntryExpired(objs[store[k]], t)
  THEN [store EXCEPT ![k] = NULL]
  ELSE store

\* Objects a call in progress still refers to
RefsOf(f) ==
  IF f.op = "check" THEN {f.existing, f.incExisting, f.newData} \ {NULL} ELSE {}

\* An object nobody refers to any more is gone.
Collect(objs, store, frames) ==
  LET live == {store[k] : k \in RateKeys} \cup UNION {RefsOf(frames[p]) : p \in Procs}
  IN [i \in ObjIds |-> IF i \in live THEN objs[i] ELSE NoData]

\* The reference a new object literal gets
NewObj(objs) ==
  CHOOSE i \in ObjIds : objs[i] = NoData /\ \A j \in ObjIds : j < i => objs[j] # NoData

CheckResult(k, allowed, remaining, resetTime) ==
  [op |-> "check", key |-> k, allowed |-> allowed, remaining |-> remaining,
   resetTime |-> resetTime]

\* Windows the store or a call in progress still refers to
WindowsInUse(objs, store, frames) ==
  {<<k, objs[store[k]].resetTime>> : k \in {j \in RateKeys : store[j] # NULL}}
    \cup UNION {{<<frames[p].key, objs[i].resetTime>> : i \in RefsOf(frames[p])}
                 : p \in Procs}

\* The history is kept for the windows in use (and the one just answered).
History(allowed, inUse) ==
  [w \in RateKeys \X ResetTimes |-> IF w \in inUse THEN allowed[w] ELSE 0]

NoAnswer ==
  rlAllowed' = History(rlAllowed, WindowsInUse(rlObjs', rlStore', frame'))

\* A check has answered allowed = true for the window ending at resetTime.
CountAllowed(k, resetTime) ==
  rlAllowed' = History([rlAllowed EXCEPT ![<<k, resetTime>>] = @ + 1],
                       WindowsInUse(rlObjs', rlStore', frame')
                         \cup {<<k, resetTime>>})

\* RateLimiter.check(request), up to `await this.store.get(key)`
BeginCheck(p, k) ==
  LET f == [op |-> "check", key |-> k, now |-> now,
            existing |-> StoreGet(rlStore, rlObjs, k, now),
            incExisting |-> NULL, newData |-> NULL]
      store == StoreAfterGet(rlStore, rlObjs, k, now)
  IN
    /\ limiters["authRateLimit"].backend = "memory"
    /\ Call(p, "rl_get", f)
    /\ rlStore' = store
    /\ rlObjs' = Collect(rlObjs, store, [frame EXCEPT ![p] = f])
    /\ NoAnswer
    /\ UNCHANGED <<now, dbVars, calls, auxVars>>

\* check resumes with `existing`: a new window, a refusal, or
\* store.increment(key) up to its `await this.get(key)`
RlGot(p) ==
  /\ pc[p] = "rl_get"
  /\ LET f == frame[p]
         k == f.key
         e == f.existing
     IN
       IF e = NULL \/ WindowElapsed(rlObjs[e], f.now)
       THEN LET id == NewObj(rlObjs)
                g == With(f, [newData |-> id])
                store == [rlStore EXCEPT ![k] = id]
                objs == [rlObjs EXCEPT
                           ![id] = [count |-> 1, resetTime |-> f.now + windowMs]]
            IN /\ Goto(p, "rl_set_new", g)
               /\ rlStore' = store
               /\ rlObjs' = Collect(objs, store, [frame EXCEPT ![p] = g])
               /\ NoAnswer
       ELSE IF LimitReached(rlObjs[e].count)
       THEN /\ Finish(p, CheckResult(k, FALSE, 0, rlObjs[e].resetTime))
            /\ rlObjs' = Collect(rlObjs, rlStore, [frame EXCEPT ![p] = NoFrame])
            /\ rlStore' = rlStore
            /\ NoAnswer
       ELSE LET g == With(f, [incExisting |-> StoreGet(rlStore, rlObjs, k, now)])
                store == StoreAfterGet(rlStore, rlObjs, k, now)
            IN /\ Goto(p, "rl_inc_get", g)
               /\ rlStore' = store
               /\ rlObjs' = Collect(rlObjs, store, [frame EXCEPT ![p] = g])
               /\ NoAnswer
  /\ UNCHANGED <<now, dbVars, calls, auxVars>>

\* check resumes after `await this.store.set(key, newData, ...)`
RlSetNew(p) ==
  /\ pc[p] = "rl_set_new"
  /\ LET f == frame[p]
         resetTime == rlObjs[f.newData].resetTime
     IN
       /\ Finish(p, CheckResult(f.key, TRUE, max - 1, resetTime))
       /\ rlStore' = rlStore
       /\ rlObjs' = Collect(rlObjs, rlStore, [frame EXCEPT ![p] = NoFrame])
       /\ CountAllowed(f.key, resetTime)
  /\ UNCHANGED <<now, dbVars, calls, auxVars>>

\* an increment that also pushes the end of the window forward
IncrementedSliding(data) ==
  [count |-> data.count + 1, resetTime |-> data.resetTime + 1]

\* existing.count++
Incremented(data) == [data EXCEPT !.count = @ + 1]

\* increment resumes after its get: existing.count++ and set; when the key is
\* gone it throws, and check's catch counts on the object it holds itself
RlIncGot(p) ==
  /\ pc[p] = "rl_inc_get"
  /\ LET f == frame[p]
         target == IF f.incExisting = NULL THEN f.existing ELSE f.incExisting
         label == IF f.incExisting = NULL THEN "rl_fallback_set" ELSE "rl_inc_set"
     IN
       /\ Goto(p, label, f)
       /\ rlStore' = [rlStore EXCEPT ![f.key] = target]
       /\ rlObjs' = Collect([rlObjs EXCEPT ![target] = Incremented(@)],
                            [rlStore EXCEPT ![f.key] = target], frame)
  /\ NoAnswer
  /\ UNCHANGED <<now, dbVars, calls, auxVars>>

\* increment returns existing.count, check answers max - newCount
RlIncSet(p) ==
  /\ pc[p] = "rl_inc_set"
  /\ LET f == frame[p]
         newCount == rlObjs[f.incExisting].count
         resetTime == rlObjs[f.existing].resetTime
     IN
       /\ Finish(p, CheckResult(f.key, TRUE, max - newCount, resetTime))
       /\ rlStore' = rlStore
       /\ rlObjs' = Collect(rlObjs, rlStore, [frame EXCEPT ![p] = NoFrame])
       /\ CountAllowed(f.key, resetTime)
  /\ UNCHANGED <<now, dbVars, calls, auxVars>>

\* check's catch resumes after `await this.store.set(key, existing, ...)`
RlFallbackSet(p) ==
  /\ pc[p] = "rl_fallback_set"
  /\ LET f == frame[p]
         resetTime == rlObjs[f.existing].resetTime
     IN
       /\ Finish(p, CheckResult(f.key, TRUE, max - rlObjs[f.existing].count,
                                resetTime))
       /\ rlStore' = rlStore
       /\ rlObjs' = Collect(rlObjs, rlStore, [frame EXCEPT ![p] = NoFrame])
       /\ CountAllowed(f.key, resetTime)
  /\ UNCHANGED <<now, dbVars, calls, auxVars>>

\* MemoryRateLimitStore.cleanup, run by the store's interval timer
RlCleanup ==
  LET store == [k \in RateKeys |->
                  IF rlStore[k] # NULL /\ EntryExpired(rlObjs[rlStore[k]], now)
                  THEN NULL ELSE rlStore[k]]
  IN
    /\ limiters["authRateLimit"].cleanupInterval
    /\ store # rlStore
    /\ rlStore' = store
    /\ rlObjs' = Collect(rlObjs, store, frame)
    /\ UNCHANGED <<now, dbVars, calls, auxVars, pc, frame, ret>>
    /\ NoAnswer

\* (bug variant: the whole map is cleared)
StoreDeleteAll(store, k) == [j \in RateKeys |-> NULL]

\* MemoryRateLimitStore.delete(key)
StoreDelete(store, k) == [store EXCEPT ![k] = NULL]

\* RateLimiter.reset(request): keyGenerator(request), store.delete(key)
RlReset(p, k) ==
  /\ limiters["authRateLimit"].backend = "memory"
  /\ pc[p] = "idle"
  /\ UNCHANGED <<now, dbVars, calls, auxVars, pc, frame>>
  /\ rlStore' = StoreDelete(rlStore, k)
  /\ rlObjs' = Collect(rlObjs, rlStore', frame)
  /\ NoAnswer
  /\ ret' = [ret EXCEPT ![p] = [op |-> "reset", key |-> k]]

\* options.keyGenerator of the three limiters: generateRateLimitKey with
\* the limiter's prefix, extractClientIP where none is given
LimiterKey(l, request) ==
  IF l = "authRateLimit" THEN GenerateRateLimitKey("auth", request)
  ELSE IF l = "registerRateLimit"
  THEN GenerateRateLimitKey("register", request)
  ELSE ExtractClientIP(request)

\* ------------------------------------------- Redis store, server process
\* RateLimiter.check on a limiter holding the Redis store, up to the
\* `await import('ioredis')` of RedisRateLimitStore.connect
BeginCheckRedis(p, k) ==
  /\ limiters["authRateLimit"].backend = "redis"
  /\ Call(p, "redis_connect",
          [op |-> "check", key |-> k, now |-> now, existing |-> NULL,
           incExisting |-> NULL, newData |-> NULL])
  /\ UNCHANGED <<now, dbVars, calls, rlVars, auxVars>>

CheckThrown(k, error) == [op |-> "check_thrown", key |-> k, error |-> error]

\* connect resumes: without the client library it throws, and nothing between
\* it and the caller of check catches; with it `new Redis(url)` succeeds
\* whether or not a server answers, and get goes on to `await hmget`
RedisConnect(p) ==
  /\ pc[p] = "redis_connect"
  /\ IF env.redis = "no_client" /\ ~limiters["authRateLimit"].connected
     THEN /\ Finish(p, CheckThrown(frame[p].key, "Redis not available"))
          /\ UNCHANGED limiters
     ELSE /\ Goto(p, "redis_hmget", frame[p])
          /\ limiters' = [limiters EXCEPT !["authRateLimit"].connected = TRUE]
  /\ UNCHANGED <<now, dbVars, calls, rlVars, env, pw, process, files>>

\* hmget against a server that cannot be reached is rejected once the
\* client gives up retrying; check does not catch that either
RedisHmget(p) ==
  /\ pc[p] = "redis_hmget"
  /\ env.redis = "unreachable"
  /\ Finish(p, CheckThrown(frame[p].key, "MaxRetriesPerRequestError"))
  /\ UNCHANGED <<now, dbVars, calls, rlVars, auxVars>>

\* RateLimiter.destroy -> store.destroy(): clears the interval and the map
\* (nothing in the program calls it)
RateLimiterDestroy(l) ==
  /\ limiters' = [limiters EXCEPT ![l].cleanupInterval = FALSE]
  /\ rlStore' = IF l = "authRateLimit" THEN [k \in RateKeys |-> NULL]
                ELSE rlStore
  /\ rlObjs' = Collect(rlObjs, rlStore', frame)
  /\ NoAnswer
  /\ UNCHANGED <<now, dbVars, calls, env, pw, process, files, pc, frame,
                 ret>>

\* process.on('SIGINT' / 'SIGTERM'): the handler starts
\* `await prisma.$disconnect()`
Signals == {"SIGINT", "SIGTERM"}
ProcessSignal(sig) ==
  /\ process = "running"
  /\ process' = sig
  /\ UNCHANGED <<now, dbVars, calls, rlVars, env, pw, limiters, files, pc,
                 frame, ret>>

\* the handler resumes: process.exit(0)
ProcessExit ==
  /\ process \in Signals
  /\ process' = "exited"
  /\ UNCHANGED <<now, dbVars, calls, rlVars, env, pw, limiters, files, pc,
                 frame, ret>>

\* ------------------------------------------- password utilities, called
PwUnchanged ==
  UNCHANGED <<now, dbVars, calls, rlVars, env, limiters, process, files, pc,
              frame, ret>>

\* hashPassword(password)
PwHash(password, draw) ==
  /\ pw' = [fn |-> "hashPassword", password |-> password,
            result |-> HashPassword(password, env, draw)]
  /\ PwUnchanged

\* validatePasswordStrength(password)
PwValidate(password) ==
  /\ pw' = [fn |-> "validatePasswordStrength", password |-> password,
            isValid |-> IsValidPassword(password),
            errors |-> StrengthErrors(password),
            strength |-> LET score == StrengthScore(password)
                         IN IF score <= 3 THEN "weak"
                            ELSE IF score <= 5 THEN "medium"
                            ELSE IF score <= 7 THEN "strong"
                            ELSE "very-strong"]
  /\ PwUnchanged

\* verifyPassword(password, hash) on the digest hashPassword just returned
PwVerifyHashed(password, draw) ==
  /\ pw.fn = "hashPassword"
  /\ pw.result.ok
  /\ pw' = [fn |-> "verifyPassword", password |-> password,
            hashedPassword |-> pw.result.hash,
            roundTrip |-> (password = pw.password),
            value |-> VerifyPassword(password, pw.result.hash, env, draw)]
  /\ PwUnchanged

\* verifyPassword(password, hashedPassword) on a digest found in the store
PwVerifyStored(password, hashedPassword, draw) ==
  /\ pw' = [fn |-> "verifyPassword", password |-> password,
            hashedPassword |-> hashedPassword, roundTrip |-> FALSE,
            value |-> VerifyPassword(password, hashedPassword, env, draw)]
  /\ PwUnchanged

\* -------------------------------------------------------- secure backup
BkUnchanged ==
  UNCHANGED <<now, dbVars, calls, rlVars, env, pw, limiters, process>>

\* createSecureBackup(data, options) up to its await of writeFile, called
\* while no backup file exists (the migration tool writes one per run);
\* `data` is the caller's array as passed, `records` its objects afterwards
BeginBackup(p, data, options, iv) ==
  LET encrypt == Default(options.encrypt, TRUE)
      includePasswords == Default(options.includePasswords, FALSE)
      backupPath == IF options.backupPath = <<>> THEN DefaultPath(encrypt)
                    ELSE options.backupPath
      mapped == [i \in 1 .. Len(data) |-> Sanitize(data[i], includePasswords)]
      sanitizedData == [i \in 1 .. Len(data) |-> mapped[i].sanitized]
      backupData ==
        [metadata |-> [timestamp |-> [iso |-> now], version |-> "1.0",
                       encrypted |-> encrypt,
                       includesPasswords |-> includePasswords,
                       recordCount |-> Len(sanitizedData)],
         data |-> sanitizedData]
      jsonData == Stringify(backupData)
      key == IF options.encryptionKey = <<>> THEN GeneratedKey
             ELSE options.encryptionKey
  IN /\ \A path \in BackupPaths : files[path] = NoFile
     /\ Call(p, "bk_write",
             [op |-> "createSecureBackup", data |-> data,
              records |-> [i \in 1 .. Len(data) |-> mapped[i].record],
              options |-> options, backupPath |-> backupPath,
              key |-> IF encrypt THEN key ELSE <<>>,
              text |-> IF encrypt THEN EncryptBackup(jsonData, key, iv)
                       ELSE jsonData])
     /\ UNCHANGED files
     /\ BkUnchanged

\* writeFile(backupPath, ...), then the path is returned
BkWrite(p) ==
  /\ pc[p] = "bk_write"
  /\ files' = [files EXCEPT ![frame[p].backupPath] = frame[p].text]
  /\ Finish(p, [op |-> "createSecureBackup", data |-> frame[p].data,
                records |-> frame[p].records,
                options |-> frame[p].options, key |-> frame[p].key,
                backupPath |-> frame[p].backupPath])
  /\ BkUnchanged

\* restoreSecureBackup(backupPath, encryptionKey), called directly or by
\* validateBackup, up to its await of readFile
BackupReaders == {"restoreSecureBackup", "validateBackup"}
BeginRestore(p, op, backupPath, encryptionKey) ==
  /\ Call(p, "bk_read", [op |-> op, backupPath |-> backupPath,
                         encryptionKey |-> encryptionKey])
  /\ UNCHANGED files
  /\ BkUnchanged

\* readFile resolves or rejects; restoreSecureBackup returns the backup or
\* throws, validateBackup turns either into its verdict
BkRead(p) ==
  /\ pc[p] = "bk_read"
  /\ LET f == frame[p]
         restored == IF files[f.backupPath] = NoFile
                     THEN [ok |-> FALSE, error |-> "ENOENT"]
                     ELSE RestoreSecureBackup(f.backupPath,
                                              files[f.backupPath],
                                              f.encryptionKey)
     IN Finish(p, [op |-> f.op, backupPath |-> f.backupPath,
                   encryptionKey |-> f.encryptionKey,
                   result |-> IF f.op = "validateBackup"
                              THEN ValidateBackup(restored)
                              ELSE restored])
  /\ UNCHANGED files
  /\ BkUnchanged

\* secureDeleteBackup(backupPath): unlink
SecureDeleteBackup(p, backupPath) ==
  /\ pc[p] = "idle"
  /\ files[backupPath] # NoFile
  /\ files' = [files EXCEPT ![backupPath] = NoFile]
  /\ pc' = pc /\ frame' = frame
  /\ ret' = [ret EXCEPT ![p] = [op |-> "secureDeleteBackup",
                                backupPath |-> backupPath]]
  /\ BkUnchanged

\* The file that validateBackup will read was edited after it was written:
\* its recordCount is now n (by the holder of the key, if it is encrypted).
AlterRecordCount(backupPath, n) ==
  /\ files[backupPath] # NoFile
  /\ files' = [files EXCEPT ![backupPath] =
                 IF @.kind = "hex"
                 THEN [@ EXCEPT !.plain.metadata.recordCount = n]
                 ELSE [@ EXCEPT !.metadata.recordCount = n]]
  /\ files' # files
  /\ UNCHANGED <<pc, frame, ret>>
  /\ BkUnchanged

\* ------------------------------------------- network utilities, called
\* keyGenerator of the auth and register limiters on a request
KeyGenerator(p, prefix, request) ==
  /\ pc[p] = "idle"
  /\ ret' = [ret EXCEPT ![p] =
               [op |-> "generateRateLimitKey", prefix |-> prefix,
                request |-> request, ip |-> ExtractClientIP(request),
                key |-> GenerateRateLimitKey(prefix, request)]]
  /\ UNCHANGED <<now, dbVars, calls, rlVars, auxVars, pc, frame>>

\* --------------------------------------------------------- specifications
\* The lockout tracker and login, one call at a time.
LockSeqNext ==
  \/ Tick
  \/ \E p \in SeqProcs :
       \/ \E e \in LoginEmails, word \in Passwords : BeginLogin(p, e, word)
       \/ LoginFind(p)
       \/ LoginVerify(p)
       \/ LoginIssue(p)
       \/ \E u \in LockUsers : BeginIncrement(p, u)
       \/ IncFind(p)
       \/ IncUpdate(p)
       \/ \E e \in LoginEmails : BeginCheckLock(p, e)
       \/ CheckFind(p)
       \/ \E u \in LockUsers : BeginIsLocked(p, u)
       \/ IsLockedFind(p)
       \/ ResetUpdate(p)

LockSeqSpec == Init /\ [][LockSeqNext]_vars

\* Concurrent logins of one user, with the right and with a wrong password.
LockRaceNext ==
  \/ Tick
  \/ \E p \in Procs :
       \/ \E word \in Passwords : BeginLogin(p, "test@example.com", word)
       \/ LoginFind(p)
       \/ CheckFind(p)
       \/ IsLockedFind(p)
       \/ ResetUpdate(p)
       \/ LoginVerify(p)
       \/ IncFind(p)
       \/ IncUpdate(p)
       \/ LoginIssue(p)

LockRaceSpec == Init /\ [][LockRaceNext]_vars

\* Logins against a user table whose first user registered before the
\* password upgrade (digest in the salt:hash or the v2: format) or after it.
StoredDigests ==
  {Digest(t, "pw1", TestEnv.JWT_SECRET) :
     t \in {<<"x", ":", "x">>, <<"v2:", "x">>, <<"bun:v1:", "$argon2id$">>}}

LegacyInit ==
  \E d \in StoredDigests :
    InitBoot(TestEnv, [InitUsers EXCEPT ![1].password = d], 0)

LegacySpec == LegacyInit /\ [][LockSeqNext]_vars

\* The lockout tracker called for ids and emails with and without a record,
\* while user records are deleted.
TrackerIds == LockUsers \cup {Cardinality(UserIds) + 1}

TrackerNext ==
  \/ Tick
  \/ \E u \in LockUsers : DeleteUser(u)
  \/ \E p \in SeqProcs :
       \/ \E u \in TrackerIds : BeginIncrement(p, u)
       \/ IncFind(p)
       \/ IncUpdate(p)
       \/ \E u \in TrackerIds : BeginReset(p, u)
       \/ ResetUpdate(p)
       \/ \E u \in TrackerIds : BeginIsLocked(p, u)
       \/ IsLockedFind(p)
       \/ \E e \in LoginEmails : BeginCheckLock(p, e)
       \/ CheckFind(p)

TrackerSpec == Init /\ [][TrackerNext]_vars

\* Failure recordings of one user that all overlap: every call starts before
\* any of them has returned, the counter standing at a when the first starts.
Recorded == {0, 1, 2}

IncRaceInit == \E a \in Recorded : InitAt(TestEnv, a)

IncRaceNext ==
  \/ Tick
  \/ \E p \in Racers :
       \/ (\A q \in Racers : ret[q] = NoRet) /\ BeginIncrement(p, 1)
       \/ IncFind(p)
       \/ IncUpdate(p)

IncRaceSpec == IncRaceInit /\ [][IncRaceNext]_vars

\* Ownership-checked revocation under concurrent requests.
RevokeNext ==
  \/ \E u \in UserIds : CreateRefreshToken(u)
  \/ \E p \in Procs :
       \/ \E t \in Presentable, u \in UserIds : BeginRevokeSecure(p, t, u)
       \/ RevSecDelete(p)

RevokeSpec == Init /\ [][RevokeNext]_vars

\* Registrations, for an email that has a user and for a new one, with
\* passwords that pass the strength rules and passwords that do not.
RegisterNext ==
  \/ \E p \in Procs :
       \/ \E e \in {"test@example.com", "new@example.com"}, word \in PwInputs :
            BeginRegister(p, e, word)
       \/ RegFind(p)
       \/ RegHash(p)
       \/ RegCreate(p)

RegisterSpec == Init /\ [][RegisterNext]_vars

\* The migration tool's backups: written, read back, validated, edited and
\* deleted, one call at a time.
BackupNext ==
  \/ \E p \in SeqProcs :
       \/ \E data \in BackupInputs, options \in BackupOptions, iv \in Ivs :
            BeginBackup(p, data, options, iv)
       \/ BkWrite(p)
       \/ \E op \in BackupReaders, path \in BackupPaths, key \in RestoreKeys :
            BeginRestore(p, op, path, key)
       \/ BkRead(p)
       \/ \E path \in BackupPaths : SecureDeleteBackup(p, path)
  \/ \E path \in BackupPaths, n \in 0 .. (MaxRecords + 1) :
       AlterRecordCount(path, n)

BackupSpec == Init /\ [][BackupNext]_vars

\* Key derivation for requests with every combination of headers.
NetNext ==
  \E p \in SeqProcs, prefix \in KeyPrefixes, request \in NetRequests :
    KeyGenerator(p, prefix, request)

NetSpec == Init /\ [][NetNext]_vars

\* Logins and refreshes of one caller at a time, while tokens expire and a
\* user's account is deleted.
AuthFailNext ==
  \/ Tick
  \/ \E u \in DOMAIN users : CreateRefreshToken(u)
  \/ DeleteUser(2)
  \/ \E p \in SeqProcs :
       \/ \E e \in LoginEmails, word \in Passwords : BeginLogin(p, e, word)
       \/ LoginFind(p)
       \/ CheckFind(p)
       \/ IsLockedFind(p)
       \/ LoginVerify(p)
       \/ IncFind(p)
       \/ IncUpdate(p)
       \/ ResetUpdate(p)
       \/ LoginIssue(p)
       \/ \E t \in Presentable : BeginRefresh(p, t)
       \/ ValFind(p)
       \/ ValDelete(p)
       \/ RefreshUser(p)
       \/ RefreshRevoke(p)
       \/ RefreshIssue(p)

AuthFailSpec == InitAt(TestEnv, 4) /\ [][AuthFailNext]_vars

\* Logout of authenticated users, next to token validation, within the life
\* time of the tokens.
LogoutNext ==
  \/ \E u \in UserIds : CreateRefreshToken(u)
  \/ \E p \in Procs :
       \/ \E u \in UserIds, t \in Presentable \cup {NULL}, all \in BOOLEAN :
            BeginLogout(p, u, t, all)
       \/ \E u \in UserIds : LogoutMissing(p, u)
       \/ RevSecDelete(p)
       \/ LogoutAll(p)
       \/ \E t \in Presentable : BeginValidate(p, t)
       \/ ValFind(p)

LogoutSpec == Init /\ [][LogoutNext]_vars

\* Validation and rotation of refresh tokens under concurrent requests.
RotateNext ==
  \/ Tick
  \/ \E u \in UserIds : CreateRefreshToken(u)
  \/ \E p \in Procs :
       \/ \E t \in Presentable : BeginRefresh(p, t)
       \/ \E t \in Presentable : BeginValidate(p, t)
       \/ ValFind(p)
       \/ ValDelete(p)
       \/ RefreshUser(p)
       \/ RefreshRevoke(p)
       \/ RefreshIssue(p)

RotateSpec == Init /\ [][RotateNext]_vars

\* The rate limiter under concurrent requests.
RateNext ==
  \/ Tick
  \/ RlCleanup
  \/ \E p \in Procs :
       \/ \E k \in RaceKeys : BeginCheck(p, k)
       \/ RlGot(p)
       \/ RlSetNew(p)
       \/ RlIncGot(p)
       \/ RlIncSet(p)
       \/ RlFallbackSet(p)

RateSpec == Init /\ [][RateNext]_vars

\* The rate limiter, one request at a time.
RateSeqNext ==
  \/ Tick
  \/ RlCleanup
  \/ \E p \in SeqProcs :
       \/ \E k \in RateKeys : BeginCheck(p, k)
       \/ RlGot(p)
       \/ RlSetNew(p)
       \/ RlIncGot(p)
       \/ RlIncSet(p)
       \/ RlFallbackSet(p)

RateSeqSpec == Init /\ [][RateSeqNext]_vars

\* Checks and resets of one caller at a time on the keys of two clients.
RateKeyNext ==
  \/ RateSeqNext
  \/ \E p \in SeqProcs, k \in RateKeys : RlReset(p, k)

RateKeySpec == Init /\ [][RateKeyNext]_vars

\* The password utilities in every environment.
PwInit == \E e \in PwEnvs : InitIn(e)

PwNext ==
  \E password \in PwInputs, draw \in Draws :
    \/ PwValidate(password)
    \/ PwHash(password, draw)
    \/ PwVerifyHashed(password, draw)
    \/ \E d \in ForeignDigests : PwVerifyStored(password, d, draw)

PasswordSpec == PwInit /\ [][PwNext]_vars

\* The auth rate limiter from store selection to process exit, in
\* deployments where no Redis server answers.
LifeEnvs ==
  {[NODE_ENV |-> n, JWT_SECRET |-> "a-long-random-secret",
    PEPPER_SECRET |-> "", REDIS_URL |-> u, redis |-> r] :
     n \in {"production", "development"},
     u \in {"", "redis://localhost:6379"},
     r \in {"no_client", "unreachable"}}

LifeInit == \E e \in LifeEnvs : InitIn(e)

LifeNext ==
  \/ \E sig \in Signals : ProcessSignal(sig)
  \/ ProcessExit
  \/ /\ process # "exited"
     /\ \/ Tick
        \/ RlCleanup
        \/ \E p \in SeqProcs :
             \/ \E k \in RaceKeys : BeginCheck(p, k)
             \/ RlGot(p)
             \/ RlSetNew(p)
             \/ RlIncGot(p)
             \/ RlIncSet(p)
             \/ RlFallbackSet(p)
             \/ \E k \in RaceKeys : BeginCheckRedis(p, k)
             \/ RedisConnect(p)
             \/ RedisHmget(p)

LifeSpec == LifeInit /\ [][LifeNext]_vars

\* --------------------------------------------------- claims: refresh tokens
Stepped(p) == pc'[p] # pc[p] \/ frame'[p] # frame[p]
EmailOf(u) == users[u].email

\* What validateRefreshToken is specified to answer for a token at time t.
Validates(tbl, token, t) ==
  IF \E r \in tbl : r.token = token /\ t < r.expiresAt
  THEN (CHOOSE r \in tbl : r.token = token).userId
  ELSE NULL

\* The call of process p has just ended reporting an invalid token.
EndsInvalid(p) ==
  /\ pc'[p] = "idle"
  /\ IF frame[p].op = "refresh"
     THEN ret'[p].outcome = "TOKEN_INVALID"
     ELSE ret'[p].value = NULL

\* The validation of process p has just answered the user id u.
EndsValid(p, u) ==
  IF frame[p].op = "refresh"
  THEN pc'[p] = "refresh_user" /\ frame'[p].tokenUserId = u
  ELSE pc'[p] = "idle" /\ ret'[p].value = u

\* C1: a refresh token is single-use: however concurrent refreshToken calls
\* presenting the same token interleave, at most one of them succeeds, so no
\* token is ever exchanged for two successors.
SingleUseRefresh ==
  \A r1 \in rotations, r2 \in rotations : r1.old = r2.old => r1.new = r2.new

\* C2: when every one of the N concurrent requests has called
\* revokeRefreshTokenSecure(token, owner) for the same token, owned by that
\* owner when each was fired, exactly one answered TRUE, the others FALSE, and
\* the row is gone; and no two calls ever both answer TRUE for one token.
RevokeRaceExactlyOne ==
  /\ \A p \in Procs, q \in Procs :
       (/\ p # q
        /\ ret[p].op = "revokeRefreshTokenSecure"
        /\ ret[q].op = "revokeRefreshTokenSecure"
        /\ ret[p].token = ret[q].token)
       => ~(ret[p].value /\ ret[q].value)
  /\ \A t \in 1 .. (nextToken - 1) :
       (\A p \in Procs :
          /\ ret[p].op = "revokeRefreshTokenSecure"
          /\ ret[p].token = t
          /\ ret[p].ownedAtCall)
       => /\ Cardinality({p \in Procs : ret[p].value}) = 1
          /\ ~HasToken(refreshTokens, t)

RevokeRaceWitness ==
  \E t \in 1 .. (nextToken - 1) :
    /\ \A p \in Procs :
         /\ ret[p].op = "revokeRefreshTokenSecure"
         /\ ret[p].token = t
         /\ ret[p].ownedAtCall
    /\ Cardinality({p \in Procs : ret[p].value}) = 1

\* C3: revokeRefreshTokenSecure(token, userId) answers TRUE and deletes the
\* row when a row with that token owned by userId exists; otherwise it answers
\* FALSE and leaves the table as it is; no other row is ever touched.
RevokeSecureOwnership ==
  [][\A p \in Procs :
       (pc[p] = "revsec_delete" /\ Stepped(p)) =>
         LET f == frame[p]
             owned == \E r \in refreshTokens :
                        r.token = f.token /\ r.userId = f.userId
         IN
           /\ ret'[p].value = owned
           /\ refreshTokens' =
                {r \in refreshTokens : ~(owned /\ r.token = f.token)}]_vars

RevokeSecureOwnershipWitness ==
  \E p \in Procs, q \in Procs :
    /\ ret[p].op = "revokeRefreshTokenSecure" /\ ret[p].value
    /\ ret[q].op = "revokeRefreshTokenSecure" /\ ~ret[q].value
    /\ \E r \in refreshTokens :
         /\ r.token = ret[q].token
         /\ r.userId # ret[q].userId
         /\ r.userId = ret[p].userId

\* C4: once a refresh has exchanged tokenA for tokenB, tokenA never validates
\* again, every later validation of tokenA reports invalid, and at the moment
\* of the exchange tokenB validates to the user that tokenA's row named.
RotationInvalidatesOld ==
  [][/\ \A r \in rotations' : Validates(refreshTokens', r.old, now') = NULL
     /\ \A p \in Procs :
          LET f == frame[p] IN
            /\ (pc[p] = "refresh_issue" /\ Stepped(p)) =>
                 \E r \in rotations' \ rotations :
                   /\ r.old = f.token
                   /\ r.userId = f.tokenUserId
                   /\ Validates(refreshTokens', r.new, now') = r.userId
            /\ (/\ pc[p] = "val_find" /\ Stepped(p)
                /\ f.op = "refresh"
                /\ pc'[p] = "refresh_user") =>
                 frame'[p].tokenUserId = FindToken(refreshTokens, f.token).userId
            /\ (/\ pc[p] = "val_find" /\ Stepped(p)
                /\ \E r \in rotations : r.old = f.token) =>
                 EndsInvalid(p)]_vars

RotationWitness ==
  \E r \in rotations :
    /\ Validates(refreshTokens, r.new, now) = r.userId
    /\ Validates(refreshTokens, r.old, now) = NULL
    /\ \E p \in Procs : ret[p].op = "validateRefreshToken" /\ ret[p].value = NULL

\* C5: validateRefreshToken answers the owning user id exactly when a row with
\* the token exists and now < expiresAt; with no row it answers invalid and
\* changes nothing; with a row whose expiresAt <= now it deletes exactly that
\* row and answers invalid; it never deletes a row that has not expired.
ValidateContract ==
  [][\A p \in Procs :
       LET f == frame[p]
           present == \E r \in refreshTokens : r.token = f.token
           row == CHOOSE r \in refreshTokens : r.token = f.token
       IN
         /\ (pc[p] = "val_find" /\ Stepped(p)) =>
              /\ refreshTokens' = refreshTokens
              /\ IF ~present THEN EndsInvalid(p)
                 ELSE IF now < row.expiresAt THEN EndsValid(p, row.userId)
                 ELSE pc'[p] = "val_delete"
         /\ (pc[p] = "val_delete" /\ Stepped(p) /\ present) =>
              /\ row.expiresAt <= now
              /\ refreshTokens' = refreshTokens \ {row}
              /\ EndsInvalid(p)]_vars

ValidateContractWitness ==
  \E p \in Procs :
    /\ ret[p].op = "validateRefreshToken"
    /\ ret[p].value = NULL
    /\ ret[p].deleted

\* ------------------------------------------------ claims: account lockout
\* C6: with one call at a time, after k recorded failures since the last
\* reset loginAttempts is k; checkAccountLockByEmail answers isLocked = FALSE
\* while k < MAX_LOGIN_ATTEMPTS and isLocked = TRUE once k reached it, and
\* after exactly MAX_LOGIN_ATTEMPTS failures the lockedUntil it reports is the
\* time of the last of them plus the lockout period.
LockoutThreshold ==
  \A u \in DOMAIN users :
    /\ users[u].loginAttempts = streak[u]
    /\ \A p \in Procs :
         (ret[p].op = "checkAccountLockByEmail" /\ ret[p].email = EmailOf(u)) =>
           /\ ret[p].isLocked = (streak[u] >= MAX_LOGIN_ATTEMPTS)
           /\ (streak[u] < MAX_LOGIN_ATTEMPTS) => ret[p].lockedUntil = NULL
           /\ (streak[u] = MAX_LOGIN_ATTEMPTS) =>
                ret[p].lockedUntil = lastFailure[u] + LOCKOUT_TIME_MINUTES

LockoutThresholdWitness ==
  \E p \in Procs :
    /\ ret[p].op = "checkAccountLockByEmail"
    /\ ret[p].email = "test@example.com"
    /\ ret[p].isLocked
    /\ streak[1] = MAX_LOGIN_ATTEMPTS
    /\ ret[p].lockedUntil = lastFailure[1] + LOCKOUT_TIME_MINUTES

\* C7: once a user is locked (MAX_LOGIN_ATTEMPTS failures recorded,
\* lockedUntil set), recording one more failure leaves lockedUntil as it was.
FurtherFailureKeepsLock ==
  [][\A u \in DOMAIN users :
       (/\ users[u].lockedUntil # NULL
        /\ users[u].loginAttempts >= MAX_LOGIN_ATTEMPTS
        /\ users'[u].loginAttempts = users[u].loginAttempts + 1)
       => users'[u].lockedUntil = users[u].lockedUntil]_vars

\* C8: a lock check that finds lockedUntil <= now reports isLocked = FALSE and
\* first sets loginAttempts to 0 and lockedUntil to null; the failure recorded
\* next leaves loginAttempts = 1 and the account open.
LazyLockExpiry ==
  [][\A p \in Procs :
       LET f == frame[p]
           u == f.userId
       IN
         /\ (/\ pc[p] = "locked_find" /\ Stepped(p)
             /\ u \in DOMAIN users
             /\ users[u].lockedUntil # NULL
             /\ users[u].lockedUntil <= now)
            => (pc'[p] = "reset_update" /\ frame'[p].resetFor = "isAccountLocked")
         /\ (pc[p] = "reset_update" /\ Stepped(p) /\ f.resetFor = "isAccountLocked")
            => /\ users'[u].loginAttempts = 0
               /\ users'[u].lockedUntil = NULL
               /\ IF f.op = "login"
                  THEN pc'[p] = "login_verify"
                  ELSE pc'[p] = "idle" /\ ret'[p].isLocked = FALSE
         /\ (/\ pc[p] = "inc_update" /\ Stepped(p)
             /\ lazyReset[u] /\ users[u].loginAttempts = 0)
            => /\ users'[u].loginAttempts = 1
               /\ users'[u].lockedUntil = NULL]_vars

LazyLockExpiryWitness ==
  /\ lazyReset[1]
  /\ users[1].loginAttempts = 1
  /\ users[1].lockedUntil = NULL
  /\ \E p \in Procs : ret[p].op = "login" /\ ret[p].outcome = "INVALID_CREDENTIALS"

\* C9: a login whose lock check runs while the user's lock window is active
\* (now < lockedUntil) fails with ACCOUNT_LOCKED whatever the password, and no
\* step of it up to there changes a user row or the refresh-token table.
LockedLoginRejected ==
  [][\A p \in Procs :
       LET f == frame[p] IN
         /\ (/\ f.op = "login" /\ Stepped(p)
             /\ pc[p] \in {"login_find", "check_find", "locked_find"})
            => /\ users' = users
               /\ refreshTokens' = refreshTokens
               /\ nextToken' = nextToken
         /\ (/\ f.op = "login" /\ Stepped(p)
             /\ pc[p] = "locked_find"
             /\ f.userId \in DOMAIN users
             /\ users[f.userId].lockedUntil # NULL
             /\ now < users[f.userId].lockedUntil)
            => /\ pc'[p] = "idle"
               /\ ret'[p].op = "login"
               /\ ret'[p].outcome = "ACCOUNT_LOCKED"]_vars

LockedLoginRejectedWitness ==
  \E p \in Procs :
    /\ ret[p].op = "login"
    /\ ret[p].outcome = "ACCOUNT_LOCKED"
    /\ \E draw \in Draws :
         VerifyPassword(ret[p].password, users[1].password, env, draw)
    /\ users[1].lockedUntil # NULL /\ now < users[1].lockedUntil

\* ----------------------------------------------------- claims: rate limiter
\* C10: for every key and window, however concurrent check calls interleave
\* between the store's get and its increment or set, at most `max` calls are
\* answered allowed = TRUE, the stored count never exceeds `max`, and no call
\* reports a negative remaining.
RateLimitNeverExceeded ==
  /\ \A w \in RateKeys \X ResetTimes : rlAllowed[w] <= max
  /\ \A k \in RateKeys : rlStore[k] # NULL => rlObjs[rlStore[k]].count <= max
  /\ \A p \in Procs : ret[p].op = "check" => ret[p].remaining >= 0

\* Windows of key k still open at time t in which a check was answered
OpenWindows(k, t) ==
  {rt \in ResetTimes : rt > t /\ rlAllowed[<<k, rt>>] > 0}

\* C11: with one request at a time, the n-th check of a key inside its
\* window is allowed with remaining = max - n for n = 1 .. max (4, 3, 2, 1, 0
\* for max = 5), every further check inside the window is denied with
\* remaining 0, and a check entered when no window is open (none yet, or at
\* or after resetTime) is allowed with remaining = max - 1 and opens a window
\* ending at its entry time + windowMs.
FixedWindowScenario ==
  [][\A p \in SeqProcs :
       (frame[p].op = "check" /\ pc'[p] = "idle") =>
         LET f == frame[p]
             open == OpenWindows(f.key, f.now)
         IN IF open = {}
            THEN ret'[p] = CheckResult(f.key, TRUE, max - 1, f.now + windowMs)
            ELSE \A rt \in open :
                   LET n == rlAllowed[<<f.key, rt>>]
                   IN IF n < max
                      THEN ret'[p] = CheckResult(f.key, TRUE, max - (n + 1), rt)
                      ELSE ret'[p] = CheckResult(f.key, FALSE, 0, rt)]_vars

\* The sixth check inside a window has been denied.
FixedWindowWitness ==
  \E p \in SeqProcs :
    /\ ret[p].op = "check"
    /\ ~ret[p].allowed
    /\ rlAllowed[<<ret[p].key, ret[p].resetTime>>] = max

\* ------------------------------------------------ claims: password hashing
\* C12: whenever hashPassword succeeds for a password (which then passed
\* the strength validation), verifyPassword of that password against the
\* digest returned is TRUE, in production with a secret and outside
\* production with or without one.
HashVerifyRoundTrip ==
  (pw.fn = "verifyPassword" /\ pw.roundTrip) => pw.value

\* ------------------------------------------- claims: rate limiter backends
\* C13: when the Redis store is selected but cannot be reached, the limiter
\* falls back to the memory store: every check ends with a decision
\* {allowed, remaining, resetTime}, none fails because Redis is unavailable.
RedisFallsBackToMemory ==
  \A p \in Procs : ret[p].op # "check_thrown"

\* C14: when the process has shut down after SIGINT or SIGTERM, destroy() has
\* been invoked on every memory store whose sweep interval was started: no
\* interval is left uncleared.
SweepStoppedOnShutdown ==
  process = "exited" => \A l \in Limiters : ~limiters[l].cleanupInterval

\* ------------------------------------------- claims: lockout under races
\* C15: in every reachable state of a user record, also while failed and
\* successful logins of that user run concurrently, lockedUntil is non-null
\* only if loginAttempts >= MAX_LOGIN_ATTEMPTS.
LockedOnlyAtThreshold ==
  \A u \in DOMAIN users :
    users[u].lockedUntil # NULL => users[u].loginAttempts >= MAX_LOGIN_ATTEMPTS


\* C16: k failure recordings for one user that run concurrently, started with
\* loginAttempts = a, leave loginAttempts >= a + k - 1 once all have returned:
\* the race loses at most one of them.
RaceLosesAtMostOne ==
  LET done == {p \in Racers : ret[p].op = "incrementLoginAttempts"}
      k == Cardinality(done)
      a == streak[1] - k
  IN  (k > 0 /\ \A p \in Racers : pc[p] = "idle")
        => users[1].loginAttempts >= a + k - 1

\* ------------------------------------------------ claims: login outcomes
\* C17: when a login with the correct password for an account that is not
\* locked has returned, that user's loginAttempts is 0 and lockedUntil is
\* null, whatever loginAttempts was before the login.
SuccessResetsAttempts ==
  \A p \in SeqProcs :
    (ret[p].op = "login" /\ ret[p].outcome = "ok")
      => /\ users[ret[p].userId].loginAttempts = 0
         /\ users[ret[p].userId].lockedUntil = NULL

\* a login succeeded right after failures of the same user were recorded
SuccessResetsAttemptsWitness ==
  \E p \in SeqProcs :
    /\ ret[p].op = "login" /\ ret[p].outcome = "ok"
    /\ lastFailure[ret[p].userId] = now
    /\ users[ret[p].userId].loginAttempts = 0
    /\ users[ret[p].userId].lockedUntil = NULL

\* the call threw instead of returning
Threw(r) == "outcome" \in DOMAIN r /\ r.outcome = "STORE_FAULT"

\* C18: no lockout-tracker operation throws for a non-existent user: a step
\* of incrementLoginAttempts, resetLoginAttempts or isAccountLocked whose id
\* has no user record (never had one, or lost it while the call was in
\* flight) changes no user row and does not end the call by throwing, and
\* checkAccountLockByEmail for an email without a record returns
\* isLocked = FALSE.
NoThrowForMissingUser ==
  [][\A p \in SeqProcs :
       LET f == frame[p] IN
         /\ (/\ Stepped(p)
             /\ pc[p] \in {"inc_find", "inc_update", "reset_update", "locked_find"}
             /\ f.userId \notin DOMAIN users)
            => /\ users' = users
               /\ ~Threw(ret'[p])
         /\ (/\ Stepped(p)
             /\ pc[p] = "check_find"
             /\ f.op = "checkAccountLockByEmail"
             /\ UserIdByEmail(f.email) = NULL)
            => /\ users' = users
               /\ ret'[p].op = "checkAccountLockByEmail"
               /\ ret'[p].isLocked = FALSE]_vars

\* what the caller of login gets when it fails: the Error thrown, which
\* carries nothing but its message
ErrorSeen(r) == r.message

\* C19: a login with an email nobody registered and a login with a registered
\* email and a wrong password (the account not locked at the check, also when
\* this failure is the one that locks it) both fail with one and the same
\* INVALID_CREDENTIALS error: what the caller gets is equal in the two cases.
SameInvalidCredentials ==
  [][\A p \in SeqProcs :
       LET f == frame[p] IN
         (/\ f.op = "login" /\ Stepped(p) /\ pc'[p] = "idle"
          /\ \/ pc[p] = "login_find" /\ UserIdByEmail(f.email) = NULL
             \/ pc[p] \in {"inc_find", "inc_update"})
           => /\ ret'[p].op = "login"
              /\ ret'[p].outcome = "INVALID_CREDENTIALS"
              /\ ErrorSeen(ret'[p])
                   = <<"[", "AuthService.login", "] ", "INVALID_CREDENTIALS">>]_vars

\* the failed login that locked the account was answered INVALID_CREDENTIALS
SameInvalidCredentialsWitness ==
  \E p \in SeqProcs :
    /\ ret[p].op = "login"
    /\ ret[p].email = "test@example.com"
    /\ ret[p].outcome = "INVALID_CREDENTIALS"
    /\ users[1].loginAttempts = MAX_LOGIN_ATTEMPTS
    /\ users[1].lockedUntil # NULL
    /\ lastFailure[1] = now

\* ------------------------------------------- claims: password verification
\* the only digest text verifyPassword recognises: the bun:v1 tag followed by
\* an Argon2id encoding
Recognised(hashedPassword) == hashedPassword.text = <<"bun:v1:", "$argon2id$">>

LegacyLoginMigrates ==
  [][\A p \in SeqProcs :
       LET f == frame[p] IN
         (/\ f.op = "login" /\ Stepped(p)
          /\ pc[p] = "login_verify"
          /\ f.user.password.text = <<"x", ":", "x">>
          /\ f.user.password.of = f.password)
           => /\ pc'[p] = "reset_update"
              /\ \A q \in SeqProcs :
                   (ret'[q].op = "login" /\ ret'[q].outcome = "ok")
                     => Recognised(users'[ret'[q].userId].password)]_vars

\* a password request was answered: verifyPassword returned, or hashPassword
\* returned a digest
Served == pw.fn = "verifyPassword" \/ (pw.fn = "hashPassword" /\ pw.result.ok)

\* C22: in production with no application secret configured, or with the
\* placeholder value, the system fails at startup: no state is reachable in
\* which a hash or verify request has been answered.
ProductionRequiresSecret ==
  (env.NODE_ENV = "production" /\ \A draw \in Draws : GetPepper(env, draw) = Thrown)
    => ~Served

\* ------------------------------------------ claims: rate limiter windows
\* the counter the store holds for key k (NoData: none)
CounterOf(store, objs, k) == IF store[k] = NULL THEN NoData ELSE objs[store[k]]

\* C23: a check that finds the key's counter live (resetTime after the time
\* the check read on entry) with count already at max is denied with
\* remaining = 0 and the counter's resetTime, and leaves the count and the
\* resetTime of every stored counter as they were, so that any number of
\* denied checks in a window leaves the counter at max.
DeniedCheckChangesNothing ==
  [][\A p \in SeqProcs :
       LET f == frame[p] IN
         (/\ pc[p] = "rl_get" /\ Stepped(p)
          /\ f.existing # NULL
          /\ rlObjs[f.existing].resetTime > f.now
          /\ rlObjs[f.existing].count >= max)
           => /\ ret'[p] = CheckResult(f.key, FALSE, 0, rlObjs[f.existing].resetTime)
              /\ \A k \in RateKeys :
                   CounterOf(rlStore', rlObjs', k) = CounterOf(rlStore, rlObjs, k)]_vars

\* a check was denied inside a window whose counter still stands at max
DeniedCheckWitness ==
  \E p \in SeqProcs :
    /\ ret[p].op = "check"
    /\ ~ret[p].allowed /\ ret[p].remaining = 0
    /\ now < ret[p].resetTime
    /\ CounterOf(rlStore, rlObjs, ret[p].key) = [count |-> max, resetTime |-> ret[p].resetTime]

\* C24: the window is fixed. A counter enters the store with resetTime = the
\* entry time of the check that creates it + windowMs; while it is stored no
\* check, allowed or denied, changes its resetTime unless the window has
\* elapsed; it leaves the store only once the window has elapsed; and the
\* fallback taken when the store's increment fails puts the counter back
\* with the resetTime it had.
WindowIsFixed ==
  [][\A k \in RateKeys :
       LET c == CounterOf(rlStore, rlObjs, k)
           d == CounterOf(rlStore', rlObjs', k)
       IN
         /\ (rlStore[k] # NULL /\ rlStore'[k] # NULL)
              => (d.resetTime = c.resetTime \/ c.resetTime <= now)
         /\ (rlStore[k] # NULL /\ rlStore'[k] = NULL) => c.resetTime <= now
         /\ (rlStore[k] = NULL /\ rlStore'[k] # NULL)
              => \E p \in SeqProcs :
                   /\ frame[p].op = "check" /\ frame[p].key = k
                   /\ \/ /\ pc[p] = "rl_get"
                         /\ d = [count |-> 1, resetTime |-> frame[p].now + windowMs]
                      \/ /\ pc[p] = "rl_inc_get"
                         /\ d.resetTime = rlObjs[frame[p].existing].resetTime]_vars

\* the fifth check of a window was allowed and the counter still ends where
\* the first check of the window put it
WindowIsFixedWitness ==
  \E p \in SeqProcs :
    /\ ret[p].op = "check" /\ ret[p].allowed /\ ret[p].remaining = 0
    /\ CounterOf(rlStore, rlObjs, ret[p].key)
         = [count |-> max, resetTime |-> ret[p].resetTime]
    /\ now > 0 /\ now < ret[p].resetTime

\* the counter of key k as a reader at time t sees it: none once expired
LogicalCounter(store, objs, k, t) ==
  IF store[k] = NULL \/ objs[store[k]].resetTime <= t
  THEN NoData ELSE objs[store[k]]

\* C25: an expired counter is logically absent whether or not it is still
\* in the map. The store's get (on entry to check, and inside increment)
\* never hands back a counter with resetTime <= now; the sweep removes only
\* counters with resetTime <= now and changes no other; hence what any
\* reader sees for any key, now or later, is the same before and after a run
\* of the sweep, and so is the result of every check.
ExpiredIsAbsent ==
  [][/\ \A p \in SeqProcs :
          /\ (pc[p] = "idle" /\ pc'[p] = "rl_get" /\ frame'[p].existing # NULL)
               => rlObjs'[frame'[p].existing].resetTime > now
          /\ (pc[p] = "rl_get" /\ pc'[p] = "rl_inc_get"
                /\ frame'[p].incExisting # NULL)
               => rlObjs'[frame'[p].incExisting].resetTime > now
     /\ (pc' = pc /\ frame' = frame /\ rlStore' # rlStore)
          => \A k \in RateKeys :
               /\ rlStore'[k] # rlStore[k]
                    => (rlStore'[k] = NULL /\ rlObjs[rlStore[k]].resetTime <= now)
               /\ \A t \in now .. (MaxTime + windowMs) :
                    LogicalCounter(rlStore', rlObjs', k, t)
                      = LogicalCounter(rlStore, rlObjs, k, t)]_vars

\* the sweep has removed the expired counter an allowed check left behind
ExpiredIsAbsentWitness ==
  \E p \in SeqProcs :
    /\ pc[p] = "idle"
    /\ ret[p].op = "check" /\ ret[p].allowed
    /\ ret[p].resetTime <= now
    /\ rlStore[ret[p].key] = NULL

\* ------------------------------------------------------- claims: logout
\* C26: logout with a refreshToken and without logoutAll deletes that token
\* only if the authenticated caller owns it: then exactly that record goes
\* and logout succeeds; if the token belongs to another user or to nobody,
\* logout fails with TOKEN_INVALID and the token table is unchanged.
LogoutOwnTokenOnly ==
  [][\A p \in Procs :
       LET f == frame[p]
           own == {r \in refreshTokens : r.token = f.token /\ r.userId = f.userId}
       IN (pc[p] = "revsec_delete" /\ f.op = "logout" /\ Stepped(p))
            => IF own # {}
               THEN /\ refreshTokens' = refreshTokens \ own
                    /\ ret'[p].op = "logout" /\ ret'[p].outcome = "ok"
               ELSE /\ refreshTokens' = refreshTokens
                    /\ ret'[p].op = "logout"
                    /\ ret'[p].outcome = "TOKEN_INVALID"]_vars

\* a caller presented another user's live token: refused, the token stays
LogoutOwnTokenOnlyWitness ==
  \E p \in Procs :
    /\ ret[p].op = "logout" /\ ret[p].outcome = "TOKEN_INVALID"
    /\ \E r \in refreshTokens : r.token = ret[p].token /\ r.userId # ret[p].userId

\* C27: logout with logoutAll (revokeAllRefreshTokens(userId)) deletes every
\* refresh-token record of userId and leaves the records of every other user
\* as they were; none of the tokens it deleted has a record afterwards, and
\* validateRefreshToken answers null for a token without a record.
LogoutAllRevokesOwn ==
  [][\A p \in Procs :
       LET f == frame[p] IN
         /\ (pc[p] = "logout_all" /\ Stepped(p))
              => /\ refreshTokens' = {r \in refreshTokens : r.userId # f.userId}
                 /\ ret'[p].op = "logout" /\ ret'[p].outcome = "ok"
         /\ (ret'[p].op = "logout" /\ ret'[p].outcome = "ok" /\ ret'[p].logoutAll)
              => \A t \in ret'[p].revoked : ~HasToken(refreshTokens', t)
         /\ (pc[p] = "val_find" /\ Stepped(p) /\ ~HasToken(refreshTokens, f.token))
              => /\ ret'[p].op = "validateRefreshToken"
                 /\ ret'[p].value = NULL]_vars

\* a user logged out everywhere, another user's session stayed, and a
\* validation of a token revoked that way is looking it up
LogoutAllRevokesOwnWitness ==
  \E p \in Procs, q \in Procs :
    /\ ret[p].op = "logout" /\ ret[p].outcome = "ok" /\ ret[p].logoutAll
    /\ ret[p].revoked # {}
    /\ \E r \in refreshTokens : r.userId # ret[p].userId
    /\ pc[q] = "val_find"
    /\ frame[q].op = "validateRefreshToken"
    /\ frame[q].token \in ret[p].revoked


Decoded(text, key) ==
  IF text.kind = "hex" THEN DecryptBackup(text, key).text ELSE text
HasPassword(records) ==
  \E i \in 1 .. Len(records) : "password" \in DOMAIN records[i]

\* C29: the payload createSecureBackup writes holds a password field in none
\* of its decoded records unless includePasswords = true was passed, whether
\* or not the records handed in had one, and the records handed in are the
\* same afterwards.
BackupExcludesPasswords ==
  [][\A p \in SeqProcs :
       pc[p] = "bk_write" /\ pc'[p] = "idle" =>
         LET f == frame[p]
             written == files'[f.backupPath]
         IN /\ written # NoFile
            /\ HasPassword(Decoded(written, f.key).data)
                 => f.options.includePasswords = "true"
            /\ ret'[p].records = f.data]_vars

\* A backup of records that hold passwords, made with no options, is on
\* disk without them.
BackupExcludesPasswordsWitness ==
  \E p \in SeqProcs :
    /\ ret[p].op = "createSecureBackup"
    /\ HasPassword(ret[p].data)
    /\ ret[p].options = [encrypt |-> "undefined",
                         includePasswords |-> "undefined",
                         encryptionKey |-> <<>>, backupPath |-> <<>>]
    /\ files[ret[p].backupPath] # NoFile
    /\ ~HasPassword(Decoded(files[ret[p].backupPath], ret[p].key).data)

\* C30: the backup createSecureBackup writes declares as recordCount the
\* number of records in its data, and validateBackup answers invalid for
\* every backup it can decode whose recordCount is not the number of its
\* records.
BackupCountIntegrity ==
  [][\A p \in SeqProcs :
       /\ pc[p] = "bk_write" /\ pc'[p] = "idle" =>
            LET doc == Decoded(files'[frame[p].backupPath], frame[p].key)
            IN doc.metadata.recordCount = Len(doc.data)
       /\ /\ pc[p] = "bk_read" /\ pc'[p] = "idle"
          /\ frame[p].op = "validateBackup"
          /\ files[frame[p].backupPath] # NoFile
          => LET restored == RestoreSecureBackup(frame[p].backupPath,
                                                 files[frame[p].backupPath],
                                                 frame[p].encryptionKey)
             IN /\ restored.ok
                /\ restored.backupData.metadata.recordCount
                     # Len(restored.backupData.data)
                => ~ret'[p].result.valid]_vars

\* validateBackup has refused, for its count, an encrypted backup that was
\* written by createSecureBackup and edited since.
BackupCountIntegrityWitness ==
  \E p \in SeqProcs :
    /\ ret[p].op = "validateBackup"
    /\ ~ret[p].result.valid
    /\ ret[p].result.error = "Record count mismatch"
    /\ files[ret[p].backupPath].kind = "hex"
    /\ files[ret[p].backupPath].plain.metadata.recordCount
         # Len(files[ret[p].backupPath].plain.data)

\* C31: restoreSecureBackup never returns a backup whose declared
\* recordCount is not the number of the records it decoded; it fails
\* instead.
RestoreRejectsCountMismatch ==
  [][\A p \in SeqProcs :
       /\ pc[p] = "bk_read" /\ pc'[p] = "idle"
       /\ frame[p].op = "restoreSecureBackup"
       /\ ret'[p].result.ok
       => ret'[p].result.backupData.metadata.recordCount
            = Len(ret'[p].result.backupData.data)]_vars

\* C32: restoreSecureBackup without a key fails for want of the key on every
\* backup that createSecureBackup wrote encrypted, whatever path it was
\* written to, and returns every backup that was written unencrypted.
KeyRequiredIffEncrypted ==
  [][\A p \in SeqProcs :
       /\ pc[p] = "bk_read" /\ pc'[p] = "idle"
       /\ frame[p].op = "restoreSecureBackup"
       /\ frame[p].encryptionKey = <<>>
       /\ files[frame[p].backupPath] # NoFile
       => IF files[frame[p].backupPath].kind = "hex"
          THEN /\ ~ret'[p].result.ok
               /\ ret'[p].result.error
                    = "Encryption key required for encrypted backup restoration"
          ELSE ret'[p].result.ok]_vars

\* C33: what restoreSecureBackup returns for the file createSecureBackup has
\* just written to its default path, given the key the backup was made with
\* (none if it is not encrypted), is the sanitized records and their number.
BackupRoundTrip ==
  [][\A p \in SeqProcs :
       /\ pc[p] = "bk_write" /\ pc'[p] = "idle"
       /\ frame[p].options.backupPath = <<>>
       /\ Default(frame[p].options.encrypt, TRUE)
            => frame[p].options.encryptionKey # <<>>
       => LET f == frame[p]
              includePasswords == Default(f.options.includePasswords, FALSE)
              sanitizedData ==
                [i \in 1 .. Len(f.data) |->
                   Sanitize(f.data[i], includePasswords).sanitized]
              restored == RestoreSecureBackup(f.backupPath,
                                              files'[f.backupPath],
                                              f.options.encryptionKey)
          IN /\ restored.ok
             /\ restored.backupData.data = sanitizedData
             /\ restored.backupData.metadata.recordCount
                  = Len(sanitizedData)]_vars

\* ------------------------------------------- claims: password strength
\* The hard errors of a password: too short, too long, or holding a
\* deny-listed word.
HardErrors(password) ==
  \/ PasswordShape[password].length < 8
  \/ PasswordShape[password].length > 128
  \/ PasswordShape[password].weak

\* C34: validatePasswordStrength answers isValid exactly for the passwords
\* with no hard error and a score of at least 4, and answers the same for the
\* same password every time.
ValidIffNoErrorAndScore ==
  [][pw'.fn = "validatePasswordStrength" =>
       /\ pw'.isValid <=> (~HardErrors(pw'.password)
                             /\ StrengthScore(pw'.password) >= 4)
       /\ (pw.fn = "validatePasswordStrength" /\ pw.password = pw'.password)
            => (pw'.isValid = pw.isValid /\ pw'.errors = pw.errors)]_vars

\* A password without a hard error has been rejected for its score.
ValidIffNoErrorAndScoreWitness ==
  /\ pw.fn = "validatePasswordStrength"
  /\ ~HardErrors(pw.password)
  /\ pw.errors = 0
  /\ ~pw.isValid

\* ---------------------------------------------------- claims: client keys
\* The values extractClientIP is specified to look at, in order.
Candidates(request) ==
  <<Trim(request.forwarded[1]), request.realIP, request.ip>>
Qualifies(value) == value # <<>> /\ value # <<"unknown">>

\* C35: the address extracted from a request is the first of the left-most
\* forwarded entry, the x-real-ip header and the connection's address that
\* is neither empty nor 'unknown', and 'unknown' when there is none; the key
\* is the prefix, a colon and that address.
ClientKeyDerivation ==
  \A p \in SeqProcs :
    ret[p].op = "generateRateLimitKey" =>
      LET c == Candidates(ret[p].request)
          good == {i \in 1 .. 3 : Qualifies(c[i])}
      IN /\ ret[p].ip = IF good = {} THEN <<"unknown">>
                        ELSE c[CHOOSE i \in good : \A j \in good : i <= j]
         /\ ret[p].key = <<ret[p].prefix, ":">> \o ret[p].ip

\* A chain 'unknown, 192.0.2.1' with an x-real-ip header gave the header's
\* address, not the next entry of the chain.
ClientKeyDerivationWitness ==
  \E p \in SeqProcs :
    /\ ret[p].op = "generateRateLimitKey"
    /\ ret[p].request.forwarded = << <<"unknown">>, <<" ", "192.0.2.1">> >>
    /\ ret[p].request.realIP = <<"198.51.100.7">>
    /\ ret[p].key = <<"auth", ":", "198.51.100.7">>

\* ------------------------------------------- claims: races on one record
\* C36: a call presenting an expired refresh token ends by answering that
\* the token is invalid (validateRefreshToken returns null, refreshToken
\* throws TOKEN_INVALID), whatever other calls on the same token do in
\* between; its delete of the record never ends it with a fault of the
\* store.
ExpiredTokenAnswersInvalid ==
  [][\A p \in Procs :
       pc[p] = "val_delete" /\ pc'[p] = "idle" =>
         IF frame[p].op = "validateRefreshToken"
         THEN ~Threw(ret'[p]) /\ ret'[p].value = NULL
         ELSE ret'[p].outcome = "TOKEN_INVALID"]_vars

\* C37: of the register calls for one email that reach the insert, one
\* creates the user and every other one ends with EMAIL_ALREADY_EXISTS, and
\* one user record with the email exists afterwards.
RegisterRaceIsTyped ==
  [][\A p \in Procs :
       pc[p] = "reg_create" /\ pc'[p] = "idle" =>
         /\ ret'[p].outcome \in {"ok", "EMAIL_ALREADY_EXISTS"}
         /\ Cardinality({u \in DOMAIN users' :
                           users'[u].email = frame[p].email}) = 1]_vars

\* --------------------------------------- claims: failures and the tokens
\* C38: no step of a login that does not end it successfully changes the
\* refresh-token table, and the steps a failing refresh takes (looking the
\* token up, deleting it when it is expired, looking the user up) change
\* nothing but the record of the expired token presented.
FailuresKeepTokens ==
  [][\A p \in SeqProcs :
       LET f == frame[p] IN
         /\ (Stepped(p) /\ f.op = "login"
             /\ ~(pc'[p] = "idle" /\ ret'[p].outcome = "ok"))
            => refreshTokens' = refreshTokens
         /\ (Stepped(p) /\ f.op = "refresh"
             /\ pc[p] \in {"val_find", "refresh_user"})
            => refreshTokens' = refreshTokens
         /\ (Stepped(p) /\ f.op = "refresh" /\ pc[p] = "val_delete")
            => /\ refreshTokens' \subseteq refreshTokens
               /\ \A r \in refreshTokens \ refreshTokens' :
                    r.token = f.token /\ r.expiresAt <= now]_vars

\* A refresh has failed on an expired token and only that token's record is
\* gone; before it, a login was locked out.
FailuresKeepTokensWitness ==
  \E p \in SeqProcs :
    /\ ret[p].op = "refresh" /\ ret[p].outcome = "TOKEN_INVALID"
    /\ nextToken = 3
    /\ Cardinality(refreshTokens) = 1
    /\ DOMAIN users = UserIds
    /\ rotations = {}
    /\ users[1].lockedUntil # NULL

\* ------------------------------------------- claims: counters per key
\* the caller p is at work on key k in this step
ActsOn(p, k) ==
  \/ pc[p] # "idle" /\ frame[p].op = "check" /\ frame[p].key = k
  \/ pc[p] = "idle" /\ pc'[p] # "idle" /\ frame'[p].key = k
  \/ pc[p] = "idle" /\ pc'[p] = "idle" /\ ret'[p].op = "reset"
       /\ ret'[p].key = k

\* C39: what a reader sees as the counter of a key changes only in a step of
\* a check or a reset of that very key, and for every request the keys the
\* auth, register and general limiters derive are three different keys.
CountersPerKey ==
  [][/\ \A k \in RateKeys :
          LogicalCounter(rlStore', rlObjs', k, now')
            # LogicalCounter(rlStore, rlObjs, k, now')
          => \E p \in SeqProcs : ActsOn(p, k)
     /\ (\E p \in SeqProcs : pc[p] = "idle" /\ pc'[p] = "rl_get")
          => \A request \in NetRequests, l1 \in Limiters, l2 \in Limiters :
               l1 # l2 => LimiterKey(l1, request) # LimiterKey(l2, request)]_vars

\* One key's counter was reset while the other key's live counter stayed.
CountersPerKeyWitness ==
  \E p \in SeqProcs, k \in RateKeys, k2 \in RateKeys :
    /\ ret[p].op = "reset" /\ ret[p].key = k
    /\ rlStore[k] = NULL
    /\ k2 # k
    /\ LogicalCounter(rlStore, rlObjs, k2, now).count = 2
====
